---- MODULE Spec2Model ----
(***************************************************************************)
(* A model of crypto-algo-trader: the tick -> candle pipeline              *)
(* (internal/model/data_engine.go, internal/api/connector.go, main), the   *)
(* simulated executor (internal/executor/simulator_executor.go) and the    *)
(* signal generator (internal/strategy/state_machine.go).                  *)
(*                                                                         *)
(* Numbers.  Prices, volumes and sizes are integers.  Timestamps are       *)
(* integer milliseconds.  time.Time values are milliseconds since the Unix *)
(* epoch, the zero time.Time{} is ZeroTime.  Money of the executor is kept *)
(* in 1/MoneyScale units so that size * price / leverage and               *)
(* size * price * feeRate are exact.                                       *)
(***************************************************************************)
EXTENDS Integers, Sequences, FiniteSets, TLC

(***************************************************************************)
(* Bounds of the model.                                                    *)
(***************************************************************************)
MaxAggTicks == 3      \* ticks received by the aggregator under test (SpecAgg)
MaxTicks == 3         \* ticks read from the socket by the connector (SpecFan)
TickerChanCap == 1    \* capacity of Connector.tickerChannel (2048 in the code)
ForwardChanCap == 1   \* capacity of DataEngine.forwardTickerChan (1000 in the code)
KlineChanCap == 1     \* capacity of DataEngine.klineChan (100 in the code)

(***************************************************************************)
(* Program constants.                                                      *)
(***************************************************************************)
Minute == 60000       \* time.Minute in milliseconds
ZeroTime == -1        \* time.Time{} (IsZero); every tick time is >= 0

Symbols == {"BTC", "ETH"}                       \* cfg.Instances: one per symbol
Intervals == {"1m", "5m", "15m", "1h", "4h"}    \* NewDataEngine intervals
Aggregators == Symbols \X Intervals             \* de.aggregators of every engine

Max(a, b) == IF a >= b THEN a ELSE b
Min(a, b) == IF a <= b THEN a ELSE b

\* time.Time.Truncate(d) for a time t >= 0 and a d that divides a day.
Truncate(t, d) == t - (t % d)

\* service.ParseIntervalDuration: the duration an interval string names.
ParseIntervalDuration(s) ==
    CASE s = "1m" -> Minute
      [] s = "5m" -> 5 * Minute
      [] s = "15m" -> 15 * Minute
      [] s = "1h" -> 60 * Minute
      [] s = "4h" -> 240 * Minute

\* service.FormatInterval on the five durations of NewDataEngine.
FormatInterval(d) ==
    IF d >= 60 * Minute /\ d % (60 * Minute) = 0
    THEN (CASE d \div (60 * Minute) = 1 -> "1h" [] d \div (60 * Minute) = 4 -> "4h")
    ELSE (CASE d \div Minute = 1 -> "1m" [] d \div Minute = 5 -> "5m"
            [] d \div Minute = 15 -> "15m")

(***************************************************************************)
(* Channels.  A buffered channel is the sequence of its queued items; a    *)
(* nil channel is never ready.                                             *)
(***************************************************************************)
\* Mutant of TrySend: a full queue evicts its oldest item to admit the new one.
TrySendEvictOldest(ch, x, cap) ==
    IF Len(ch) < cap THEN Append(ch, x) ELSE Append(Tail(ch), x)

\* select { case ch <- x: default: } on a channel of capacity cap.
TrySend(ch, x, cap) == IF Len(ch) < cap THEN Append(ch, x) ELSE ch

\* The same select on a channel that may be nil.
TrySendNilable(ch, x, cap) ==
    IF ch.isNil THEN ch ELSE [ch EXCEPT !.buf = TrySend(ch.buf, x, cap)]

(***************************************************************************)
(* internal/model: KLine and KlineAggregator.                              *)
(***************************************************************************)
KLine(sym, iv, o, h, l, c, v, st, et) ==
    [Symbol |-> sym, Interval |-> iv, Open |-> o, High |-> h, Low |-> l,
     Close |-> c, Volume |-> v, StartTime |-> st, EndTime |-> et]

\* NewKlineAggregator: Current has only Symbol and Interval set.
NewKlineAggregator(sym, iv) == KLine(sym, iv, 0, 0, 0, 0, 0, ZeroTime, ZeroTime)

\* ProcessTicker's intervalDuration: one minute whatever agg.Interval is.
intervalDuration(iv) == IF iv # "1m" THEN Minute ELSE Minute

\* Mutant of BucketChanged: a tick of any other bucket, an earlier one
\* included, closes the candle.
BucketChangedAnyOtherBucket(cur, currentKlineStart) ==
    cur.StartTime # ZeroTime /\ currentKlineStart # cur.StartTime

\* Mutant of BucketChanged: a tick of the candle's own bucket closes it too.
BucketChangedSameBucket(cur, currentKlineStart) ==
    cur.StartTime # ZeroTime /\ currentKlineStart >= cur.StartTime

\* The close test of ProcessTicker.
BucketChanged(cur, currentKlineStart) ==
    cur.StartTime # ZeroTime /\ currentKlineStart > cur.StartTime

\* Mutant of ResetKLine: high and low are seeded with the previous close.
ResetKLineSeedPrevClose(cur, ticker, currentKlineStart) ==
    KLine(cur.Symbol, cur.Interval, cur.Close, cur.Close, cur.Close, 0, 0,
          currentKlineStart,
          currentKlineStart + intervalDuration(cur.Interval) - 1)

\* The candle opened when the previous one closes.
ResetKLine(cur, ticker, currentKlineStart) ==
    KLine(cur.Symbol, cur.Interval, cur.Close, ticker.Price, ticker.Price, 0, 0,
          currentKlineStart,
          currentKlineStart + intervalDuration(cur.Interval) - 1)

\* The candle opened by the first tick.
InitKLine(cur, ticker, currentKlineStart) ==
    KLine(cur.Symbol, cur.Interval, ticker.Price, ticker.Price, ticker.Price, 0, 0,
          currentKlineStart,
          currentKlineStart + intervalDuration(cur.Interval) - 1)

\* The OHLCV update every tick makes.
UpdateOHLCV(cur, ticker) ==
    [cur EXCEPT !.Close = ticker.Price,
                !.High = Max(cur.High, ticker.Price),
                !.Low = Min(cur.Low, ticker.Price),
                !.Volume = cur.Volume + ticker.Volume]

\* KlineAggregator.ProcessTicker on Current = cur with OutChan = out.
\* closed: the tick closed a candle; delivered: that candle was queued.
ProcessTicker(cur, out, ticker) ==
    LET currentKlineStart == Truncate(ticker.Timestamp, intervalDuration(cur.Interval))
        closed == BucketChanged(cur, currentKlineStart)
        completedKLine == cur
        cur1 == IF closed THEN ResetKLine(cur, ticker, currentKlineStart) ELSE cur
        out1 == IF closed THEN TrySend(out, completedKLine, KlineChanCap) ELSE out
        cur2 == IF cur1.StartTime = ZeroTime
                THEN InitKLine(cur1, ticker, currentKlineStart) ELSE cur1
    IN  [Current |-> UpdateOHLCV(cur2, ticker),
         OutChan |-> out1,
         closed |-> closed,
         completed |-> completedKLine,
         delivered |-> closed /\ Len(out1) > Len(out)]


(***************************************************************************)
(* State.                                                                  *)
(*   tickerChan             Connector.tickerChannel, the one upstream queue *)
(*   forwardTickerChan[s]   DataEngine.forwardTickerChan of instance s      *)
(*   broadcasterTickerChan[s]  DataEngine.broadcasterTickerChan (never made)*)
(*   klineChan[s]           DataEngine.klineChan of instance s              *)
(*   Current[a]             KlineAggregator.Current of aggregator a         *)
(* History variables (not program state):                                   *)
(*   sent, fate             ticks read by the connector and what became of  *)
(*                          each: queued, dropped, accepted by an engine    *)
(*                          loop (acceptedFull: with its forward queue      *)
(*                          full), aggregated, or discarded by a consumer   *)
(*                          of another symbol                               *)
(*   focus, nfed            the aggregator under test and the ticks it got  *)
(*   gcur                   the ticks applied to its in-progress candle     *)
(*   lastClosed             its last closed candle with those ticks         *)
(*   transitions, emitted, dropped   its closes, queued and dropped candles *)
(*   lastTs, monotone       whether its ticks came in time order            *)
(***************************************************************************)
VARIABLES tickerChan, forwardTickerChan, broadcasterTickerChan, klineChan,
          Current, sent, fate,
          focus, nfed, gcur, lastClosed, transitions, emitted, dropped,
          lastTs, monotone

pipeVars == <<tickerChan, forwardTickerChan, broadcasterTickerChan, klineChan,
              Current, sent, fate>>
aggHist == <<focus, nfed, gcur, lastClosed, transitions, emitted, dropped,
             lastTs, monotone>>

Ticker(sym, ts, price, vol, id) ==
    [Symbol |-> sym, Timestamp |-> ts, Price |-> price, Volume |-> vol, Id |-> id]

NoTicks == [n |-> 0, openTs |-> ZeroTime, high |-> 0, low |-> 0, vol |-> 0,
            last |-> 0, inside |-> TRUE]
NoClose == [closed |-> FALSE]

\* NewConnector, NewDataEngine and NewKlineAggregator for every instance.
InitPipe ==
    /\ tickerChan = <<>>
    /\ forwardTickerChan = [s \in Symbols |-> <<>>]
    /\ broadcasterTickerChan = [s \in Symbols |-> [isNil |-> TRUE, buf |-> <<>>]]
    /\ klineChan = [s \in Symbols |-> <<>>]
    /\ Current = [a \in Aggregators |-> NewKlineAggregator(a[1], a[2])]
    /\ sent = 0
    /\ fate = <<>>

InitAggHist ==
    /\ nfed = 0
    /\ gcur = NoTicks
    /\ lastClosed = NoClose
    /\ transitions = 0
    /\ emitted = 0
    /\ dropped = 0
    /\ lastTs = 0
    /\ monotone = TRUE

(***************************************************************************)
(* SpecAgg: one aggregator fed any ticks, in any time order, with a        *)
(* consumer that takes candles off its output queue at any pace.           *)
(***************************************************************************)
AggTimestamps == {0, Minute - 1, Minute, 5 * Minute}
AggPrices == {1, 2, 3}
AggVolumes == {0, 1}
AggTicks ==
    {Ticker("BTC", ts, p, v, 0) : ts \in AggTimestamps, p \in AggPrices, v \in AggVolumes}
        \cup {Ticker("ETH", 0, 1, 0, 0)}

\* The ticks applied to the in-progress candle, after t was applied to cur.
Applied(g, cur, reopened, t) ==
    LET in == cur.StartTime <= t.Timestamp /\ t.Timestamp <= cur.EndTime
    IN  IF reopened \/ g.n = 0
        THEN [n |-> 1, openTs |-> t.Timestamp, high |-> t.Price, low |-> t.Price,
              vol |-> t.Volume, last |-> t.Price, inside |-> in]
        ELSE [n |-> g.n + 1, openTs |-> g.openTs, high |-> Max(g.high, t.Price),
              low |-> Min(g.low, t.Price), vol |-> g.vol + t.Volume,
              last |-> t.Price, inside |-> g.inside /\ in]

\* One iteration of KlineAggregator.Run for the aggregator under test.
AggRun(t) ==
    /\ nfed < MaxAggTicks
    /\ nfed' = nfed + 1
    /\ UNCHANGED <<tickerChan, forwardTickerChan, broadcasterTickerChan, sent, fate, focus>>
    /\ IF t.Symbol # focus[1]
       THEN UNCHANGED <<Current, klineChan, gcur, lastClosed, transitions, emitted,
                        dropped, lastTs, monotone>>
       ELSE LET cur == Current[focus]
                r == ProcessTicker(cur, klineChan[focus[1]], t)
                after == cur.StartTime # ZeroTime /\ t.Timestamp > cur.EndTime
            IN  /\ Current' = [Current EXCEPT ![focus] = r.Current]
                /\ klineChan' = [klineChan EXCEPT ![focus[1]] = r.OutChan]
                /\ gcur' = Applied(gcur, r.Current, r.closed, t)
                /\ lastClosed' = IF r.closed
                                 THEN [closed |-> TRUE, kline |-> r.completed,
                                       ticks |-> gcur, by |-> t,
                                       ordered |-> (monotone /\ t.Timestamp >= lastTs),
                                       delivered |-> r.delivered]
                                 ELSE lastClosed
                /\ transitions' = IF after THEN transitions + 1 ELSE transitions
                /\ emitted' = IF r.delivered THEN emitted + 1 ELSE emitted
                /\ dropped' = IF r.closed /\ ~r.delivered THEN dropped + 1 ELSE dropped
                /\ lastTs' = t.Timestamp
                /\ monotone' = (monotone /\ t.Timestamp >= lastTs)

\* The receive of main's loop over instance s's klineChan.
KlineChanRecv(s) ==
    /\ Len(klineChan[s]) > 0
    /\ klineChan' = [klineChan EXCEPT ![s] = Tail(klineChan[s])]
    /\ UNCHANGED <<tickerChan, forwardTickerChan, broadcasterTickerChan, Current,
                   sent, fate>>
    /\ UNCHANGED aggHist

(***************************************************************************)
(* SpecFan: the connector, every instance's engine loop and aggregators,   *)
(* all receiving from the one tickerChan, and main's candle loops.         *)
(***************************************************************************)
FanCadence == Minute    \* the connector's k-th tick is k minutes after the first
FanPrice(k) == 1 + (k % 2)    \* and its price alternates

Fate(kind, sym, who) == [kind |-> kind, sym |-> sym, who |-> who]

\* Connector.readLoop: one trade turned into a Ticker and offered to tickerChannel.
ConnectorReadLoop ==
    /\ sent < MaxTicks
    /\ \E sym \in Symbols :
         LET t == Ticker(sym, sent * FanCadence, FanPrice(sent), 1, sent + 1)
             ch == TrySend(tickerChan, t, TickerChanCap)
         IN  /\ tickerChan' = ch
             /\ fate' = Append(fate, IF Len(ch) > Len(tickerChan)
                                     THEN Fate("queued", sym, "connector")
                                     ELSE Fate("dropped", sym, "connector"))
    /\ sent' = sent + 1
    /\ UNCHANGED <<forwardTickerChan, broadcasterTickerChan, klineChan, Current>>
    /\ UNCHANGED aggHist

\* The input channel NewDataEngine gives aggregator a: de.tickerChan.
inChan(a) == tickerChan

\* One iteration of DataEngine.Start's loop of instance s.
DataEngineStart(s) ==
    /\ Len(tickerChan) > 0
    /\ LET ticker == Head(tickerChan)
       IN  /\ tickerChan' = Tail(tickerChan)
           /\ IF ticker.Symbol # s
              THEN /\ fate' = [fate EXCEPT ![ticker.Id] = Fate("discarded", s, "engine")]
                   /\ UNCHANGED <<forwardTickerChan, broadcasterTickerChan>>
              ELSE /\ forwardTickerChan' =
                        [forwardTickerChan EXCEPT
                           ![s] = TrySend(forwardTickerChan[s], ticker, ForwardChanCap)]
                   /\ broadcasterTickerChan' =
                        [broadcasterTickerChan EXCEPT
                           ![s] = TrySendNilable(broadcasterTickerChan[s], ticker, 1)]
                   /\ fate' = [fate EXCEPT ![ticker.Id] =
                        Fate(IF Len(forwardTickerChan[s]) < ForwardChanCap
                             THEN "accepted" ELSE "acceptedFull", s, "engine")]
    /\ UNCHANGED <<klineChan, Current, sent>>
    /\ UNCHANGED aggHist

\* One iteration of KlineAggregator.Run of aggregator a: inChan is tickerChan.
AggregatorRun(a) ==
    /\ Len(tickerChan) > 0
    /\ LET ticker == Head(tickerChan)
           r == ProcessTicker(Current[a], klineChan[a[1]], ticker)
       IN  /\ tickerChan' = Tail(tickerChan)
           /\ IF ticker.Symbol # a[1]
              THEN /\ fate' = [fate EXCEPT ![ticker.Id] = Fate("discarded", a[1], a[2])]
                   /\ UNCHANGED <<klineChan, Current>>
              ELSE /\ Current' = [Current EXCEPT ![a] = r.Current]
                   /\ klineChan' = [klineChan EXCEPT ![a[1]] = r.OutChan]
                   /\ fate' = [fate EXCEPT ![ticker.Id] = Fate("aggregated", a[1], a[2])]
    /\ UNCHANGED <<forwardTickerChan, broadcasterTickerChan, sent>>
    /\ UNCHANGED aggHist

(***************************************************************************)
(* internal/executor: SimulatorExecutor.                                   *)
(*                                                                         *)
(* Prices are in 1/PriceScale, money in 1/MoneyScale, so that the initial  *)
(* lastPrice 1.0, price * (1 -+ 1/leverage), size * price / leverage and   *)
(* size * price * feeRate are integers.  The fee rate is in 1/1000.        *)
(***************************************************************************)
MaxExecOps == 4            \* ExecuteSignal calls plus monitor ticks (SpecExec)

PriceScale == 10 * 1
MoneyScale == 10 * 1000
InitialCapital == 10000    \* simConfig.InitialCapital of main
Leverage == 10             \* simConfig.Leverage of main
InitialLastPrice == 1      \* sim.lastPrice = 1.0 of NewSimulatorExecutor

\* The money value of size * price (price in 1/PriceScale).
Notional(size, price) == size * price * (MoneyScale \div PriceScale)

VARIABLES cfg, balance, equity, maxEquity, marginUsed, lastPrice,
          lastPriceTickerTimestamp, position, tradeHistory,
          nops, lastCall, rt, onlyGenerated, ticksOrdered

execVars == <<cfg, balance, equity, maxEquity, marginUsed, lastPrice,
              lastPriceTickerTimestamp, position, tradeHistory, nops, lastCall, rt,
              onlyGenerated, ticksOrdered>>

\* &SimulatorPosition{Side: model.DirFlat}
FlatPosition(sym) ==
    [Symbol |-> sym, Side |-> "flat", Size |-> 0, AvgPrice |-> 0,
     LiquidationPrice |-> 0, StopLossPrice |-> 0, TakeProfitPrice |-> 0,
     UPL |-> 0, EntryTime |-> ZeroTime, EntryFee |-> 0]

\* A model.Signal with the fields the executor reads, and its quoted Price,
\* which it does not read.
Signal(action, sym, dir, size, sl, tp) ==
    [Action |-> action, Symbol |-> sym, Direction |-> dir, Price |-> 0,
     PositionSize |-> size, StopLossPrice |-> sl, TakeProfitPrice |-> tp]

\* The signal quoted at price.
Quoted(signal, price) == [signal EXCEPT !.Price = price]

\* NewSimulatorExecutor with fee rate fee (in 1/1000).
InitExec(fee) ==
    /\ cfg = [InitialCapital |-> InitialCapital * MoneyScale, Leverage |-> Leverage,
              FeeRate |-> fee]
    /\ balance = InitialCapital * MoneyScale
    /\ equity = InitialCapital * MoneyScale
    /\ maxEquity = InitialCapital * MoneyScale
    /\ marginUsed = 0
    /\ lastPrice = InitialLastPrice * PriceScale
    /\ lastPriceTickerTimestamp = 0
    /\ position = FlatPosition("Default")
    /\ tradeHistory = <<>>
    /\ nops = 0
    /\ lastCall = [op |-> "new"]
    /\ rt = [phase |-> "none", bal0 |-> 0]
    /\ onlyGenerated = TRUE
    /\ ticksOrdered = TRUE

\* calculateLiquidationPrice
calculateLiquidationPrice(avgPrice, side, leverage) ==
    IF leverage <= 0 \/ side = "flat" THEN 0
    ELSE IF side = "long" THEN avgPrice - (avgPrice \div leverage)
    ELSE IF side = "short" THEN avgPrice + (avgPrice \div leverage)
    ELSE 0

\* calculateClosedPnL
calculateClosedPnL(pos, closePrice) ==
    IF pos.Size = 0 \/ pos.Side = "flat" THEN 0
    ELSE IF pos.Side = "long" THEN Notional(pos.Size, closePrice - pos.AvgPrice)
    ELSE Notional(pos.Size, pos.AvgPrice - closePrice)

\* updateEquity on position pos and balance bal: the new [position, equity].
updateEquity(pos, bal, currentPrice) ==
    IF pos.Side = "flat" THEN [position |-> pos, equity |-> bal]
    ELSE LET upl == IF pos.Side = "long"
                    THEN Notional(pos.Size, currentPrice - pos.AvgPrice)
                    ELSE Notional(pos.Size, pos.AvgPrice - currentPrice)
         IN  [position |-> [pos EXCEPT !.UPL = upl], equity |-> bal + upl]

\* Mutant of InsufficientMargin: the margin is never found short.
InsufficientMarginNever(bal, requiredMargin) == FALSE

\* The margin test of ExecuteSignal's open branch.
InsufficientMargin(bal, requiredMargin) == bal < requiredMargin

\* Mutant of FillPrice: the fill is at the signal's quoted price.
FillPriceQuoted(signal, last) == signal.Price

\* currentPrice := e.lastPrice
FillPrice(signal, last) == last

\* Mutant of AppendRecord: the new record is put in front of the history.
AppendRecordInFront(history, newRecord) == <<newRecord>> \o history

\* e.tradeHistory = append(e.tradeHistory, newRecord)
AppendRecord(history, newRecord) == Append(history, newRecord)

\* Mutant of CloseGuard: a Close is executed whatever the position is.
CloseGuardAlways(signal, pos) == signal.Action = "CLOSE"

\* The test of ExecuteSignal's close branch.
CloseGuard(signal, pos) == signal.Action = "CLOSE" /\ pos.Side # "flat"

\* The test of ExecuteSignal's open branch.
OpenGuard(signal, pos) == signal.Action = "OPEN"

\* The balance after a close: e.balance += e.marginUsed + pnl - closeFee.
CloseCredit(bal, margin, pnl, closeFee) == bal + margin + pnl - closeFee

\* The position ExecuteSignal's open branch stores.
OpenedPosition(signal, currentPrice, fee) ==
    [Symbol |-> signal.Symbol, Side |-> signal.Direction, Size |-> signal.PositionSize,
     AvgPrice |-> currentPrice,
     LiquidationPrice |-> calculateLiquidationPrice(currentPrice, signal.Direction,
                                                     cfg.Leverage),
     StopLossPrice |-> signal.StopLossPrice,
     TakeProfitPrice |-> signal.TakeProfitPrice,
     UPL |-> 0, EntryTime |-> lastPriceTickerTimestamp, EntryFee |-> fee]

\* A signal GenerateSignal returns: the Open of a rule whose sizing was
\* rejected (generateOpenSignal sets Action and Direction on the None signal
\* of calculateRiskAndSize, so size, stop and take-profit are 0), or a Close.
GeneratorSignal(signal) ==
    \/ signal.Action = "CLOSE"
    \/ /\ signal.Action = "OPEN"
       /\ signal.Direction \in {"long", "short"}
       /\ signal.PositionSize = 0
       /\ signal.StopLossPrice = 0
       /\ signal.TakeProfitPrice = 0

\* The history variables after a call: the call, the round trip it is part
\* of (an Open from flat, then a Close, with the price unchanged), and
\* whether every signal executed so far is a GeneratorSignal, and whether
\* the monitor's ticks so far came with non-decreasing timestamps.
Called(op, arg, err) ==
    /\ nops' = nops + 1
    /\ ticksOrdered' = (ticksOrdered /\ (op = "StartMonitor"
                                           => arg.Timestamp >= lastPriceTickerTimestamp))
    /\ onlyGenerated' = (onlyGenerated /\ (op = "ExecuteSignal" => GeneratorSignal(arg)))
    /\ lastCall' = [op |-> op, arg |-> arg, err |-> err,
                    wasFlat |-> position.Side = "flat",
                    pre |-> position, hist0 |-> Len(tradeHistory)]
    /\ rt' = IF op = "ExecuteSignal" /\ err = "nil" /\ arg.Action = "OPEN"
                /\ position.Side = "flat"
             THEN [phase |-> "open", bal0 |-> balance]
             ELSE IF op = "ExecuteSignal" /\ arg.Action = "CLOSE" /\ rt.phase = "open"
             THEN [rt EXCEPT !.phase = "closed"]
             ELSE IF op = "StartMonitor" /\ rt.phase = "open"
                     /\ arg.Price = lastPrice /\ position'.Side # "flat"
             THEN rt
             ELSE [phase |-> "none", bal0 |-> 0]

\* SimulatorExecutor.ExecuteSignal(signal), under e.mu.
ExecuteSignal(signal) ==
    /\ nops < MaxExecOps
    /\ LET currentPrice == FillPrice(signal, lastPrice)
           requiredMargin == Notional(signal.PositionSize, currentPrice) \div cfg.Leverage
       IN  IF OpenGuard(signal, position)
           THEN IF InsufficientMargin(balance, requiredMargin)
                THEN /\ UNCHANGED <<balance, equity, marginUsed, position, tradeHistory>>
                     /\ Called("ExecuteSignal", signal, "insufficient margin")
                ELSE LET fee == (signal.PositionSize * currentPrice * cfg.FeeRate
                                   * (MoneyScale \div PriceScale)) \div 1000
                         u == updateEquity(OpenedPosition(signal, currentPrice, fee),
                                           balance - fee, currentPrice)
                     IN  /\ balance' = balance - fee
                         /\ marginUsed' = requiredMargin
                         /\ position' = u.position
                         /\ equity' = u.equity
                         /\ UNCHANGED tradeHistory
                         /\ Called("ExecuteSignal", signal, "nil")
           ELSE IF CloseGuard(signal, position)
           THEN LET pnl == calculateClosedPnL(position, currentPrice)
                    closeFee == (position.Size * currentPrice * cfg.FeeRate
                                   * (MoneyScale \div PriceScale)) \div 1000
                    newRecord == [EntryTime |-> position.EntryTime,
                                  ExitTime |-> lastPriceTickerTimestamp,
                                  Symbol |-> position.Symbol,
                                  PosSide |-> position.Side,
                                  EntryPrice |-> position.AvgPrice,
                                  ExitPrice |-> currentPrice,
                                  Size |-> position.Size,
                                  RealizedPnL |-> pnl,
                                  Fee |-> position.EntryFee + closeFee,
                                  TriggerReason |-> "Signal"]
                    bal == CloseCredit(balance, marginUsed, pnl, closeFee)
                    u == updateEquity(FlatPosition(""), bal, currentPrice)
                IN  /\ tradeHistory' = AppendRecord(tradeHistory, newRecord)
                    /\ balance' = bal
                    /\ marginUsed' = 0
                    /\ position' = u.position
                    /\ equity' = u.equity
                    /\ Called("ExecuteSignal", signal, "nil")
           ELSE LET u == updateEquity(position, balance, currentPrice)
                IN  /\ position' = u.position
                    /\ equity' = u.equity
                    /\ UNCHANGED <<balance, marginUsed, tradeHistory>>
                    /\ Called("ExecuteSignal", signal, "nil")
    /\ UNCHANGED <<cfg, maxEquity, lastPrice, lastPriceTickerTimestamp>>

\* checkStopLoss, checkTakeProfit, checkLiquidation
checkStopLoss(pos, currentPrice) ==
    IF pos.Side = "flat" \/ pos.StopLossPrice = 0 THEN FALSE
    ELSE IF pos.Side = "long" THEN currentPrice <= pos.StopLossPrice
    ELSE IF pos.Side = "short" THEN currentPrice >= pos.StopLossPrice
    ELSE FALSE

checkTakeProfit(pos, currentPrice) ==
    IF pos.Side = "flat" \/ pos.TakeProfitPrice = 0 THEN FALSE
    ELSE IF pos.Side = "long" THEN currentPrice >= pos.TakeProfitPrice
    ELSE IF pos.Side = "short" THEN currentPrice <= pos.TakeProfitPrice
    ELSE FALSE

checkLiquidation(pos, currentPrice) ==
    IF pos.Side = "flat" \/ pos.LiquidationPrice = 0 THEN FALSE
    ELSE IF pos.Side = "long" THEN currentPrice <= pos.LiquidationPrice
    ELSE IF pos.Side = "short" THEN currentPrice >= pos.LiquidationPrice
    ELSE FALSE

\* Mutant of triggerType: the label assigned last wins, without the final
\* override by the stop-loss.
triggerTypeLastWins(isSL, isTP, isLiq) ==
    IF isLiq THEN "LIQUIDATION"
    ELSE IF isTP THEN "TAKE PROFIT"
    ELSE IF isSL THEN "STOP LOSS"
    ELSE "Manual Close"

\* Mutant of triggerType: the take-profit label is never assigned.
triggerTypeNoTakeProfit(isSL, isTP, isLiq) ==
    IF isSL THEN "SL"
    ELSE IF isLiq THEN "LIQUIDATION"
    ELSE "Manual Close"

\* The trigger label of the monitor's close.
triggerType(isSL, isTP, isLiq) ==
    IF isSL THEN "SL"
    ELSE IF isLiq THEN "LIQUIDATION"
    ELSE IF isTP THEN "TAKE PROFIT"
    ELSE "Manual Close"

\* One iteration of SimulatorExecutor.StartMonitor on ticker, under e.mu.
StartMonitor(ticker) ==
    /\ nops < MaxExecOps
    /\ LET currentPrice == ticker.Price
           u == updateEquity(position, balance, currentPrice)
           pos == u.position
           isSL == checkStopLoss(pos, currentPrice)
           isTP == checkTakeProfit(pos, currentPrice)
           isLiq == checkLiquidation(pos, currentPrice)
           closedPnL == calculateClosedPnL(pos, currentPrice)
           closeFee == (pos.Size * currentPrice * cfg.FeeRate
                          * (MoneyScale \div PriceScale)) \div 1000
           newRecord == [EntryTime |-> pos.EntryTime,
                         ExitTime |-> ticker.Timestamp,
                         Symbol |-> "", PosSide |-> "", EntryPrice |-> 0,
                         ExitPrice |-> 0, Size |-> 0,
                         RealizedPnL |-> closedPnL, Fee |-> 0,
                         TriggerReason |-> triggerType(isSL, isTP, isLiq)]
       IN  /\ lastPrice' = currentPrice
           /\ lastPriceTickerTimestamp' = ticker.Timestamp
           /\ equity' = u.equity
           /\ maxEquity' = IF u.equity > maxEquity THEN u.equity ELSE maxEquity
           /\ IF pos.Side # "flat" /\ (isSL \/ isTP \/ isLiq)
              THEN /\ tradeHistory' = AppendRecord(tradeHistory, newRecord)
                   /\ balance' = CloseCredit(balance, marginUsed, closedPnL, closeFee)
                   /\ marginUsed' = 0
                   /\ position' = FlatPosition("")
              ELSE /\ position' = pos
                   /\ UNCHANGED <<tradeHistory, balance, marginUsed>>
           /\ Called("StartMonitor", ticker, "nil")
    /\ UNCHANGED cfg

(***************************************************************************)
(* SpecExec: the executor given any signals and any ticks.                 *)
(***************************************************************************)
ExecPrices == {9 * PriceScale, 10 * PriceScale, 11 * PriceScale}
ExecSizes == {0, 1, 10000}
ExecTimestamps == {0, Minute}
ExecFeeRates == {0, 1}
ExecSignals ==
    {Signal("OPEN", "BTC", d, 1, sl, tp) :
        d \in {"long", "short"},
        sl \in {0, 9 * PriceScale}, tp \in {0, 11 * PriceScale}}
      \cup {Signal("OPEN", "BTC", d, n, 0, 0) : d \in {"long", "short"}, n \in ExecSizes}
      \cup {Signal("CLOSE", "BTC", "", 0, 0, 0), Signal("UPDATE", "BTC", "", 0, 0, 0)}
      \cup {Quoted(Signal("OPEN", "BTC", "long", 1, 0, 0), 11 * PriceScale),
            Quoted(Signal("CLOSE", "BTC", "", 0, 0, 0), 9 * PriceScale)}
ExecTicks ==
    {Ticker("BTC", ts, p, 1, 0) : ts \in ExecTimestamps, p \in ExecPrices}

(***************************************************************************)
(* internal/strategy: SignalGenerator.                                     *)
(*                                                                         *)
(* Prices, MA, ATR and band values are in 1/SigPriceScale; ATR multipliers *)
(* and the risk-reward ratio in 1/10; MaxPerTradeRisk in 1/1000; position  *)
(* sizes in 1/SizeScale and PositionScaleFactor in 1/FactorScale, both     *)
(* rounded down where the float64 of the code keeps more digits.           *)
(***************************************************************************)
MaxSigCalls == 2           \* GenerateSignal calls (SpecSig)

SigPriceScale == 10 * 10
SizeScale == 10 * 100
FactorScale == 10 * 100
MinScaleFactor == (3 * FactorScale) \div 10      \* model.MinScaleFactor = 0.3
MaxScaleFactor == (15 * FactorScale) \div 10     \* model.MaxScaleFactor = 1.5
LossStreakThreshold == 3                         \* model.LossStreakThreshold
LookbackTrades == 10                             \* LookbackTrades

Regimes == {"INITIALIZING", "STRONG_UP_TREND", "STRONG_DOWN_TREND",
            "HIGH_VOL_RANGING", "LOW_VOL_RANGING"}

VARIABLES riskCfg, CurrentState, sgExecutor, sgSignal, sgCall, nsig, sgPanic

sigVars == <<riskCfg, CurrentState, sgExecutor, sgSignal, sgCall, nsig, sgPanic>>

\* model.Signal{Action: model.ActionNone}
SignalNone ==
    [Action |-> "NONE", Symbol |-> "", Direction |-> "", Price |-> 0,
     RiskedUSD |-> 0, PositionSize |-> 0, StopLossPrice |-> 0,
     TakeProfitPrice |-> 0, SourceState |-> "", Reason |-> ""]

Abs(x) == IF x < 0 THEN -x ELSE x

\* Mutant of calculateRiskAndSize: the take-profit is measured from the stop
\* price instead of the entry price.
calculateRiskAndSizeTPFromStop(rc, dir, entryPrice, atr, atrFactor) ==
    LET factor == IF Len(atrFactor) > 0 THEN atrFactor[1]
                  ELSE rc.DefaultStopLossATRMultiplier
        defaultRRFactor == rc.DefaultRiskRewardRatio
        slDistance == (atr * factor) \div 10
        stopLossPrice == IF dir = "long" THEN entryPrice - slDistance
                         ELSE entryPrice + slDistance
        maxRisk == (rc.MaxTotalCapital * rc.MaxPerTradeRisk) \div 1000
        priceDifference == Abs(entryPrice - stopLossPrice)
        positionSize == (maxRisk * SigPriceScale * SizeScale) \div priceDifference
        tpDistance == (slDistance * defaultRRFactor) \div 10
        takeProfitPrice == IF dir = "long" THEN stopLossPrice + tpDistance
                           ELSE stopLossPrice - tpDistance
        finalPositionSize == (positionSize * rc.PositionScaleFactor) \div FactorScale
    IN  IF stopLossPrice <= 0 THEN SignalNone
        ELSE IF maxRisk <= 0 THEN SignalNone
        ELSE IF priceDifference = 0 \/ slDistance = 0 THEN SignalNone
        ELSE IF finalPositionSize < rc.MinPositionSize THEN SignalNone
        ELSE [SignalNone EXCEPT !.Action = "", !.Price = entryPrice,
                                !.Direction = dir, !.RiskedUSD = maxRisk,
                                !.PositionSize = finalPositionSize,
                                !.StopLossPrice = stopLossPrice,
                                !.TakeProfitPrice = takeProfitPrice]

\* SignalGenerator.calculateRiskAndSize(dir, entryPrice, atr, atrFactor...)
\* with risk configuration rc; atrFactor is the sequence of variadic arguments.
calculateRiskAndSize(rc, dir, entryPrice, atr, atrFactor) ==
    LET factor == IF Len(atrFactor) > 0 THEN atrFactor[1]
                  ELSE rc.DefaultStopLossATRMultiplier
        defaultRRFactor == rc.DefaultRiskRewardRatio
        slDistance == (atr * factor) \div 10
        stopLossPrice == IF dir = "long" THEN entryPrice - slDistance
                         ELSE entryPrice + slDistance
        maxRisk == (rc.MaxTotalCapital * rc.MaxPerTradeRisk) \div 1000
        priceDifference == Abs(entryPrice - stopLossPrice)
        positionSize == (maxRisk * SigPriceScale * SizeScale) \div priceDifference
        tpDistance == (slDistance * defaultRRFactor) \div 10
        takeProfitPrice == IF dir = "long" THEN entryPrice + tpDistance
                           ELSE entryPrice - tpDistance
        finalPositionSize == (positionSize * rc.PositionScaleFactor) \div FactorScale
    IN  IF stopLossPrice <= 0 THEN SignalNone
        ELSE IF maxRisk <= 0 THEN SignalNone
        ELSE IF priceDifference = 0 \/ slDistance = 0 THEN SignalNone
        ELSE IF finalPositionSize < rc.MinPositionSize THEN SignalNone
        ELSE [SignalNone EXCEPT !.Action = "", !.Price = entryPrice,
                                !.Direction = dir, !.RiskedUSD = maxRisk,
                                !.PositionSize = finalPositionSize,
                                !.StopLossPrice = stopLossPrice,
                                !.TakeProfitPrice = takeProfitPrice]

\* What generateOpenSignal makes of the sizing result riskSignal.
OpenFrom(riskSignal, m5Data, dir, state, reason) ==
    [riskSignal EXCEPT !.Action = "OPEN", !.Symbol = m5Data.Symbol,
                       !.Direction = dir, !.SourceState = state, !.Reason = reason]

\* Mutant of generateOpenSignal: the low-volatility rule sizes with the default
\* ATR multiplier instead of 0.7.
generateOpenSignalDefaultFactor(rc, state, m5Data, currentPrice) ==
    LET none == [signal |-> SignalNone, sized |-> FALSE, risk |-> SignalNone]
        rule(dir, atrFactor, reason) ==
            LET riskSignal == calculateRiskAndSize(rc, dir, currentPrice, m5Data.ATR,
                                                   atrFactor)
            IN  [signal |-> OpenFrom(riskSignal, m5Data, dir, state, reason),
                 sized |-> TRUE, risk |-> riskSignal]
    IN  IF state = "STRONG_UP_TREND" /\ currentPrice > m5Data.MA
        THEN rule("long", <<0>>, "Strong Up Trend: MA Breakout Confirmation")
        ELSE IF state = "STRONG_DOWN_TREND" /\ currentPrice < m5Data.MA
        THEN rule("short", <<0>>, "Strong Down Trend: MA Breakout Confirmation")
        ELSE IF state = "LOW_VOL_RANGING" /\ currentPrice < m5Data.BBandsDn
                /\ m5Data.RSI < 50
        THEN rule("long", <<>>, "Low Vol Ranging: BBands DN Bounce")
        ELSE none

\* SignalGenerator.generateOpenSignal(state, m5Data, currentPrice):
\* [signal: the signal returned, sized: a rule called calculateRiskAndSize,
\*  risk: what calculateRiskAndSize returned].
generateOpenSignal(rc, state, m5Data, currentPrice) ==
    LET none == [signal |-> SignalNone, sized |-> FALSE, risk |-> SignalNone]
        rule(dir, atrFactor, reason) ==
            LET riskSignal == calculateRiskAndSize(rc, dir, currentPrice, m5Data.ATR,
                                                   atrFactor)
            IN  [signal |-> OpenFrom(riskSignal, m5Data, dir, state, reason),
                 sized |-> TRUE, risk |-> riskSignal]
    IN  IF state = "STRONG_UP_TREND" /\ currentPrice > m5Data.MA
        THEN rule("long", <<0>>, "Strong Up Trend: MA Breakout Confirmation")
        ELSE IF state = "STRONG_DOWN_TREND" /\ currentPrice < m5Data.MA
        THEN rule("short", <<0>>, "Strong Down Trend: MA Breakout Confirmation")
        ELSE IF state = "LOW_VOL_RANGING" /\ currentPrice < m5Data.BBandsDn
                /\ m5Data.RSI < 50
        THEN rule("long", <<7>>, "Low Vol Ranging: BBands DN Bounce")
        ELSE none

\* Mutant of generateCloseSignal: a histogram cross needs the previous bar
\* strictly on the other side of zero.
generateCloseSignalStrictCross(marketState, currentPosition, m5Data, currentPrice) ==
    LET lastMACDHist == m5Data.MACDHist[Len(m5Data.MACDHist)]
        prevMACDHist == m5Data.MACDHist[Len(m5Data.MACDHist) - 1]
        trendExit == \/ /\ currentPosition.Direction = "long"
                        /\ (marketState = "LOW_VOL_RANGING"
                              \/ (lastMACDHist < 0 /\ prevMACDHist > 0))
                     \/ /\ currentPosition.Direction = "short"
                        /\ (marketState = "LOW_VOL_RANGING"
                              \/ (lastMACDHist > 0 /\ prevMACDHist < 0))
        rangeExit == /\ currentPosition.SourceState = "LOW_VOL_RANGING"
                     /\ m5Data.RSI > 45 /\ m5Data.RSI < 55
    IN  IF currentPosition.Direction # "flat" /\ (trendExit \/ rangeExit)
        THEN [SignalNone EXCEPT !.Action = "CLOSE", !.Symbol = currentPosition.InstID,
                                !.Price = currentPrice]
        ELSE SignalNone

\* Mutant of generateCloseSignal: the regime does not close a position, only
\* a histogram cross or the mean-reversion exit does.
generateCloseSignalNoRegimeExit(marketState, currentPosition, m5Data, currentPrice) ==
    LET lastMACDHist == m5Data.MACDHist[Len(m5Data.MACDHist)]
        prevMACDHist == m5Data.MACDHist[Len(m5Data.MACDHist) - 1]
        trendExit == \/ /\ currentPosition.Direction = "long"
                        /\ lastMACDHist < 0 /\ prevMACDHist >= 0
                     \/ /\ currentPosition.Direction = "short"
                        /\ lastMACDHist > 0 /\ prevMACDHist <= 0
        rangeExit == /\ currentPosition.SourceState = "LOW_VOL_RANGING"
                     /\ m5Data.RSI > 45 /\ m5Data.RSI < 55
    IN  IF currentPosition.Direction # "flat" /\ (trendExit \/ rangeExit)
        THEN [SignalNone EXCEPT !.Action = "CLOSE", !.Symbol = currentPosition.InstID,
                                !.Price = currentPrice]
        ELSE SignalNone

\* SignalGenerator.generateCloseSignal(marketState, currentPosition, m5Data, currentPrice)
generateCloseSignal(marketState, currentPosition, m5Data, currentPrice) ==
    LET lastRSI == m5Data.RSI
        lastMACDHist == m5Data.MACDHist[Len(m5Data.MACDHist)]
        prevMACDHist == m5Data.MACDHist[Len(m5Data.MACDHist) - 1]
        trendExit ==
            \/ /\ currentPosition.Direction = "long"
               /\ (marketState = "LOW_VOL_RANGING" \/ (lastMACDHist < 0 /\ prevMACDHist >= 0))
            \/ /\ currentPosition.Direction = "short"
               /\ (marketState = "LOW_VOL_RANGING" \/ (lastMACDHist > 0 /\ prevMACDHist <= 0))
        rangeExit == /\ currentPosition.SourceState = "LOW_VOL_RANGING"
                     /\ lastRSI > 45 /\ lastRSI < 55
    IN  IF currentPosition.Direction = "flat" THEN SignalNone
        ELSE IF trendExit \/ rangeExit
        THEN [SignalNone EXCEPT
                !.Action = "CLOSE", !.Symbol = currentPosition.InstID,
                !.Price = currentPrice,
                !.Reason = IF rangeExit
                           THEN "Mean reversion success: RSI returned to equilibrium."
                           ELSE "Trend exhaustion/reversal detected."]
        ELSE SignalNone

\* SignalGenerator.calculateRecentLosses(records): the longest run of
\* records with RealizedPnL - Fee < 0 among the last LookbackTrades.
RECURSIVE LossRun(_, _, _, _)
LossRun(records, i, run, best) ==
    IF i > Len(records) THEN best
    ELSE LET r == IF records[i].RealizedPnL - records[i].Fee < 0 THEN run + 1 ELSE 0
         IN  LossRun(records, i + 1, r, Max(best, r))

\* Mutant of calculateRecentLosses: the whole history is scanned.
calculateRecentLossesWholeHistory(records) ==
    IF Len(records) = 0 THEN 0
    ELSE LossRun(records, 1, 0, 0)

calculateRecentLosses(records) ==
    IF Len(records) = 0 THEN 0
    ELSE LossRun(records, Max(Len(records) - LookbackTrades, 0) + 1, 0, 0)

\* Mutant of Adapt: the final clamp to [MinScaleFactor, MaxScaleFactor] is left out.
AdaptNoClamp(factor, currentEquity, peakEquity, records) ==
    LET recentLossCount == calculateRecentLosses(records)
        lost == peakEquity - currentEquity
    IN  IF Len(records) <= 10 THEN factor
        ELSE IF lost * 100 >= 15 * peakEquity THEN MinScaleFactor
        ELSE IF recentLossCount >= LossStreakThreshold THEN (factor * 85) \div 100
        ELSE IF recentLossCount = 0 /\ lost * 1000 < 75 * peakEquity
                /\ factor < MaxScaleFactor
        THEN (factor * 105) \div 100
        ELSE factor

\* Mutant of Adapt: the loss streak is tested before the drawdown.
AdaptStreakFirst(factor, currentEquity, peakEquity, records) ==
    LET recentLossCount == calculateRecentLosses(records)
        lost == peakEquity - currentEquity
        f1 == IF recentLossCount >= LossStreakThreshold
              THEN Max((factor * 85) \div 100, MinScaleFactor)
              ELSE IF lost * 100 >= 15 * peakEquity THEN MinScaleFactor
              ELSE factor
    IN  IF Len(records) > 10
        THEN Max(MinScaleFactor, Min(MaxScaleFactor, f1))
        ELSE factor

\* Mutant of EnoughRecords: ten records are enough.
EnoughRecordsAtTen(records) == Len(records) >= 10

\* else if len(records) > 10
EnoughRecords(records) == Len(records) > 10

\* The adaptation of GenerateSignal: the PositionScaleFactor after it, given
\* the executor's equity, peak equity and trade records.
Adapt(factor, currentEquity, peakEquity, records) ==
    LET recentLossCount == calculateRecentLosses(records)
        lost == peakEquity - currentEquity
        f1 == IF lost * 100 >= 15 * peakEquity THEN MinScaleFactor
              ELSE IF recentLossCount >= LossStreakThreshold
              THEN Max((factor * 85) \div 100, MinScaleFactor)
              ELSE IF recentLossCount = 0 /\ lost * 1000 < 75 * peakEquity
                      /\ factor < MaxScaleFactor
              THEN Min((factor * 105) \div 100, MaxScaleFactor)
              ELSE factor
    IN  IF EnoughRecords(records)
        THEN Max(MinScaleFactor, Min(MaxScaleFactor, f1))
        ELSE factor

\* kline.EndTime.Minute()
MinuteOf(t) == (t \div Minute) % 60

\* SignalGenerator.GenerateSignal(kline, currentPosition); ta is what
\* taClient.GetTAData("5m") answers and ex what the executor answers.
GenerateSignal(kline, currentPosition, ta, ex) ==
    /\ nsig < MaxSigCalls
    /\ ~sgPanic
    /\ nsig' = nsig + 1
    /\ LET isAdaptationTime == kline.Interval = "1h" /\ MinuteOf(kline.EndTime) = 0
           rc == IF isAdaptationTime
                 THEN [riskCfg EXCEPT !.PositionScaleFactor =
                          Adapt(riskCfg.PositionScaleFactor, ex.equity, ex.maxEquity,
                                ex.records)]
                 ELSE riskCfg
           open == generateOpenSignal(rc, CurrentState, ta, kline.Close)
           call == [kline |-> kline, position |-> currentPosition, ta |-> ta,
                    ex |-> ex, factor0 |-> riskCfg.PositionScaleFactor,
                    adapted |-> isAdaptationTime, sized |-> FALSE, risk |-> SignalNone]
       IN  IF isAdaptationTime /\ sgExecutor = "nil"
           THEN \* sg.executor.GetBalance on a nil interface: the goroutine panics
                /\ sgPanic' = TRUE
                /\ sgCall' = call
                /\ UNCHANGED <<riskCfg, sgSignal>>
           ELSE /\ riskCfg' = rc
                /\ sgPanic' = FALSE
                /\ IF kline.Interval # "5m" \/ ~ta.ready
                   THEN sgSignal' = SignalNone /\ sgCall' = call
                   ELSE IF currentPosition.Direction = "flat"
                   THEN /\ sgSignal' = open.signal
                        /\ sgCall' = [call EXCEPT !.sized = open.sized,
                                                  !.risk = open.risk]
                   ELSE /\ sgSignal' = generateCloseSignal(CurrentState, currentPosition,
                                                         ta, kline.Close)
                        /\ sgCall' = call
    /\ UNCHANGED <<CurrentState, sgExecutor>>

(***************************************************************************)
(* SpecRisk: calculateRiskAndSize applied to an input drawn at the start.  *)
(***************************************************************************)
VARIABLES riskIn, riskOut, riskApplied

riskVars == <<riskIn, riskOut, riskApplied>>

RiskInput(rc, dir, entryPrice, atr, atrFactor) ==
    [rc |-> rc, dir |-> dir, entryPrice |-> entryPrice, atr |-> atr,
     atrFactor |-> atrFactor]

\* service.RiskConfig{}
ZeroRiskConfig ==
    [MaxTotalCapital |-> 0, MaxPerTradeRisk |-> 0,
     DefaultStopLossATRMultiplier |-> 0, DefaultRiskRewardRatio |-> 0,
     MinPositionSize |-> 0, PositionScaleFactor |-> 0]

\* No call of calculateRiskAndSize is under way.
InitRiskIdle ==
    /\ riskIn = RiskInput(ZeroRiskConfig, "", 0, 0, <<>>)
    /\ riskOut = SignalNone
    /\ riskApplied = FALSE

\* The call sg.calculateRiskAndSize(dir, entryPrice, atr, atrFactor...).
ApplyRiskAndSize ==
    /\ ~riskApplied
    /\ riskOut' = calculateRiskAndSize(riskIn.rc, riskIn.dir, riskIn.entryPrice,
                                       riskIn.atr, riskIn.atrFactor)
    /\ riskApplied' = TRUE
    /\ UNCHANGED riskIn

(***************************************************************************)
(* SpecSig: the signal generator given any candles, positions, indicator   *)
(* snapshots and executor answers.                                         *)
(***************************************************************************)
SigP(x) == x * SigPriceScale

SigRiskConfigs ==
    {[MaxTotalCapital |-> c[1], MaxPerTradeRisk |-> 10,
      DefaultStopLossATRMultiplier |-> 15, DefaultRiskRewardRatio |-> 15,
      MinPositionSize |-> c[2], PositionScaleFactor |-> c[3]] :
        c \in {<<0, SizeScale \div 100, FactorScale>>,
               <<10000, SizeScale \div 100, FactorScale>>,
               <<10000, 1000 * SizeScale, FactorScale>>,
               <<10000, SizeScale \div 100, 2 * FactorScale>>,
               <<10000, SizeScale \div 100, FactorScale \div 10>>}}

SigKline(iv, c, e) == [Interval |-> iv, Close |-> c, EndTime |-> e]

SigPosition(d, st) == [InstID |-> "BTC", Direction |-> d, SourceState |-> st]

SigPositions ==
    {SigPosition("flat", ""), SigPosition("long", "STRONG_UP_TREND"),
     SigPosition("short", "STRONG_DOWN_TREND"), SigPosition("long", "LOW_VOL_RANGING")}

NotReady ==
    [ready |-> FALSE, Symbol |-> "", MA |-> 0, RSI |-> 0, ATR |-> 0, BBandsDn |-> 0,
     MACDHist |-> <<0, 0>>]

SigTAData ==
    {[ready |-> TRUE, Symbol |-> "BTC", MA |-> SigP(100), RSI |-> rsi, ATR |-> atr,
      BBandsDn |-> SigP(96), MACDHist |-> h] :
        rsi \in {45, 50}, atr \in {0, SigP(2), SigP(200)},
        h \in {<<0, -1>>, <<0, 1>>, <<-1, -1>>}}
      \cup {NotReady}

TradeOf(net) == [RealizedPnL |-> net, Fee |-> 0]
Repeat(x, n) == [i \in 1..n |-> x]

NoAnswer == [equity |-> 100, maxEquity |-> 100, records |-> <<>>]

SigExecAnswers ==
    {[equity |-> e, maxEquity |-> 100, records |-> r] :
        e \in {100, 85, 80},
        r \in {Repeat(TradeOf(1), 10), Repeat(TradeOf(1), 11),
               Repeat(TradeOf(-1), 11)}}

\* The calls of GenerateSignal: 5-minute candles with every position and
\* indicator snapshot, hourly candles with every executor answer.
SigCalls ==
    {<<SigKline("5m", c, Minute - 1), pos, ta, NoAnswer>> :
        c \in {SigP(95), SigP(105)},
        pos \in SigPositions, ta \in SigTAData}
    \cup {<<SigKline("1h", SigP(105), e), SigPosition("flat", ""), NotReady, ex>> :
        e \in {Minute - 1, 60 * Minute - 1}, ex \in SigExecAnswers}

\* NewSignalGenerator: executor is "nil" as the constructor leaves it (no code
\* of the repository sets the field), or "sim" for a generator given the
\* simulator, which the adaptation of GenerateSignal presupposes.
InitSig(rc, state, executor) ==
    /\ riskCfg = rc
    /\ CurrentState = state
    /\ sgExecutor = executor
    /\ sgSignal = SignalNone
    /\ sgCall = [adapted |-> FALSE, sized |-> FALSE]
    /\ nsig = 0
    /\ sgPanic = FALSE

InitSigDefault == InitSig(CHOOSE rc \in SigRiskConfigs : TRUE, "INITIALIZING", "nil")

(***************************************************************************)
(* SpecSnap: GetCurrentPosition called by the decision loop beside the     *)
(* monitor.  GetCurrentPosition does not take e.mu: it reads e.position    *)
(* once per field of the model.Position it builds, and an iteration of the *)
(* monitor (atomic, under e.mu) can run between any two of the reads.      *)
(* The reads are taken in the order of the literal; what a read inside the *)
(* monitor's critical section could see is left out.                       *)
(***************************************************************************)
MaxSnapshots == 1          \* GetCurrentPosition calls (SpecSnap)

VARIABLES snapPc, snapOut, snapSeen, nsnap

snapVars == <<snapPc, snapOut, snapSeen, nsnap>>

\* The fields of the model.Position literal that are read from e.position.
PositionFields == <<"InstID", "Direction", "Size", "AvgPrice", "UPL">>

\* The value the k-th field of the literal is given, read from pos.
ReadField(pos, k) ==
    CASE k = 1 -> pos.Symbol
      [] k = 2 -> pos.Side
      [] k = 3 -> pos.Size
      [] k = 4 -> pos.AvgPrice
      [] OTHER -> pos.UPL

\* The model.Position of one SimulatorPosition.
PositionOf(pos) ==
    [InstID |-> pos.Symbol, Direction |-> pos.Side, Size |-> pos.Size,
     AvgPrice |-> pos.AvgPrice, UPL |-> pos.UPL]

\* model.Position{}
NoPosition == [InstID |-> "", Direction |-> "", Size |-> 0, AvgPrice |-> 0, UPL |-> 0]

\* No call of GetCurrentPosition was made.
InitSnapIdle ==
    /\ snapPc = 0
    /\ snapOut = NoPosition
    /\ snapSeen = {}
    /\ nsnap = 0

\* GetCurrentPosition is not between two of its reads.
SnapIdle == snapPc \in {0, Len(PositionFields)}

\* One read of GetCurrentPosition: the first read of a new call, or the next
\* read of the call under way; the call returns snapOut after the last one.
\* snapSeen collects the positions the executor held during the call.
GetCurrentPositionRead ==
    /\ IF SnapIdle
       THEN /\ nsnap < MaxSnapshots
            /\ nsnap' = nsnap + 1
            /\ snapPc' = 1
            /\ snapOut' = [NoPosition EXCEPT !.InstID = ReadField(position, 1)]
            /\ snapSeen' = {position}
       ELSE /\ snapPc' = snapPc + 1
            /\ snapOut' = [snapOut EXCEPT ![PositionFields[snapPc + 1]] =
                                              ReadField(position, snapPc + 1)]
            /\ UNCHANGED <<snapSeen, nsnap>>
    /\ UNCHANGED execVars

\* The decision loop's ExecuteSignal, which follows its GetCurrentPosition.
SnapExecuteSignal(signal) ==
    /\ SnapIdle
    /\ ExecuteSignal(signal)
    /\ UNCHANGED snapVars

\* An iteration of the monitor, at any time.
SnapStartMonitor(ticker) ==
    /\ StartMonitor(ticker)
    /\ snapSeen' = IF SnapIdle THEN snapSeen ELSE snapSeen \cup {position'}
    /\ UNCHANGED <<snapPc, snapOut, nsnap>>

SnapSignals ==
    {Signal("OPEN", "BTC", "long", 1, 9 * PriceScale, 0),
     Signal("OPEN", "BTC", "short", 1, 0, 9 * PriceScale),
     Signal("CLOSE", "BTC", "", 0, 0, 0)}
SnapTicks == {Ticker("BTC", 0, p, 1, 0) : p \in ExecPrices}

(***************************************************************************)
(* internal/strategy: StateMachine.                                        *)
(*                                                                         *)
(* A snapshot is what taClient.GetTAData answers: not ready (an error), or *)
(* the last close, MA and ATR in 1/SigPriceScale and the RSI in points.    *)
(* The regime is CurrentState, which the SignalGenerator reads.            *)
(***************************************************************************)
MaxStateCalls == 3         \* CheckAndTransition calls (SpecState)

TrendThreshold == 60       \* sm.TrendThreshold = 60.0
ATRVolThresholdE4 == 5     \* sm.ATRVolThreshold = 0.0005, in 1/10000

VARIABLES smCall, nsm

stateVars == <<smCall, nsm>>

\* A ready snapshot; Close is h.Close[len(h.Close)-1].
StateTA(close, ma, rsi, atr) ==
    [ready |-> TRUE, Close |-> close, MA |-> ma, RSI |-> rsi, ATR |-> atr]

\* GetTAData answered an error.
StateNotReady == [ready |-> FALSE, Close |-> 0, MA |-> 0, RSI |-> 0, ATR |-> 0]

\* No call of CheckAndTransition was made.
InitStateIdle ==
    /\ smCall = [kline |-> [Interval |-> ""], h1 |-> StateNotReady,
                 h4 |-> StateNotReady, state0 |-> "INITIALIZING"]
    /\ nsm = 0

\* Mutant of H1NotReady: the 1h snapshot is taken as ready whatever it is.
H1NotReadyNever(h1Data) == FALSE

\* h1Data, err := sm.taClient.GetTAData("1h"); err != nil
H1NotReady(h1Data) == ~h1Data.ready

\* Mutant of checkStrongTrend: the up-trend momentum test is RSI > threshold.
checkStrongTrendStrictMomentum(h1Data, h4Data) ==
    LET h4TrendConfirm == IF h4Data.ready THEN h4Data.Close > h4Data.MA ELSE TRUE
    IN  [isUpTrend |-> h1Data.Close > h1Data.MA /\ h1Data.RSI > TrendThreshold
                          /\ h4TrendConfirm,
         isDownTrend |-> h1Data.Close < h1Data.MA
                            /\ h1Data.RSI <= 100 - TrendThreshold /\ ~h4TrendConfirm]

\* Mutant of checkStrongTrend: the down-trend does not look at the 4h test.
checkStrongTrendDownWithout4h(h1Data, h4Data) ==
    LET h4TrendConfirm == IF h4Data.ready THEN h4Data.Close > h4Data.MA ELSE TRUE
    IN  [isUpTrend |-> h1Data.Close > h1Data.MA /\ h1Data.RSI >= TrendThreshold
                          /\ h4TrendConfirm,
         isDownTrend |-> h1Data.Close < h1Data.MA
                            /\ h1Data.RSI <= 100 - TrendThreshold]

\* StateMachine.checkStrongTrend
checkStrongTrend(h1Data, h4Data) ==
    LET h1TrendConfirm == h1Data.Close > h1Data.MA
        h1Momentum == h1Data.RSI >= TrendThreshold
        h4TrendConfirm == IF h4Data.ready THEN h4Data.Close > h4Data.MA ELSE TRUE
        h1TrendDownConfirm == h1Data.Close < h1Data.MA
        h1DownMomentum == h1Data.RSI <= 100 - TrendThreshold
    IN  [isUpTrend |-> h1TrendConfirm /\ h1Momentum /\ h4TrendConfirm,
         isDownTrend |-> h1TrendDownConfirm /\ h1DownMomentum /\ ~h4TrendConfirm]

\* Mutant of determineRangingMode: low volatility leaves the machine idle.
determineRangingModeIdle(h1Data) ==
    IF h1Data.Close = 0 THEN "INITIALIZING"
    ELSE IF h1Data.ATR * 10000 >= ATRVolThresholdE4 * h1Data.Close
    THEN "HIGH_VOL_RANGING"
    ELSE "INITIALIZING"

\* Mutant of determineRangingMode: no test of a zero price; the division
\* gives +Inf for a positive ATR and NaN, which fails >=, for a zero ATR.
determineRangingModeNoZeroGuard(h1Data) ==
    IF h1Data.Close = 0
    THEN IF h1Data.ATR > 0 THEN "HIGH_VOL_RANGING" ELSE "LOW_VOL_RANGING"
    ELSE IF h1Data.ATR * 10000 >= ATRVolThresholdE4 * h1Data.Close
    THEN "HIGH_VOL_RANGING"
    ELSE "LOW_VOL_RANGING"

\* StateMachine.determineRangingMode: ATR / latestPrice >= sm.ATRVolThreshold.
determineRangingMode(h1Data) ==
    LET latestPrice == h1Data.Close
    IN  IF latestPrice = 0 THEN "LOW_VOL_RANGING"
        ELSE IF h1Data.ATR * 10000 >= ATRVolThresholdE4 * latestPrice
        THEN "HIGH_VOL_RANGING"
        ELSE "LOW_VOL_RANGING"

\* StateMachine.CheckAndTransition(kline), under sm.mu; h1Data and h4Data are
\* what GetTAData("1h") and GetTAData("4h") answer.
CheckAndTransition(kline, h1Data, h4Data) ==
    /\ nsm < MaxStateCalls
    /\ nsm' = nsm + 1
    /\ smCall' = [kline |-> kline, h1 |-> h1Data, h4 |-> h4Data,
                  state0 |-> CurrentState]
    /\ IF kline.Interval # "1h" THEN UNCHANGED CurrentState
       ELSE IF H1NotReady(h1Data) THEN UNCHANGED CurrentState
       ELSE LET t == checkStrongTrend(h1Data, h4Data)
                newState == IF t.isUpTrend THEN "STRONG_UP_TREND"
                            ELSE IF t.isDownTrend THEN "STRONG_DOWN_TREND"
                            ELSE determineRangingMode(h1Data)
            IN  CurrentState' = newState
    /\ UNCHANGED <<riskCfg, sgExecutor, sgSignal, sgCall, nsig, sgPanic>>

\* The calls of the decision loop: a 5m or 1h candle; for a 1h candle the 1h
\* snapshot is not ready or its last close is the candle's (UpdateKLine runs
\* first), with closes 0, 95, 100, 105 around the MA 100, RSI 40, 41, 59, 60
\* and ATR 0.01, 0.05, 2; the 4h snapshot is not ready, above or below its MA.
StateH1Data ==
    {StateTA(SigP(c), SigP(100), rsi, atr) :
        c \in {0, 95, 100, 105}, rsi \in {40, 41, 59, 60}, atr \in {1, 5, 200}}
StateH4Data == {StateNotReady, StateTA(SigP(105), SigP(100), 50, 200),
                StateTA(SigP(95), SigP(100), 50, 200)}
StateCalls ==
    {<<[Interval |-> "1h", Close |-> h1.Close], h1, h4>> :
        h1 \in StateH1Data, h4 \in StateH4Data}
    \cup {<<[Interval |-> "1h", Close |-> SigP(c)], StateNotReady, h4>> :
            c \in {95, 105}, h4 \in StateH4Data}
    \cup {<<[Interval |-> "5m", Close |-> SigP(105)], h1, StateNotReady>> :
            h1 \in {StateNotReady, StateTA(SigP(105), SigP(100), 60, 200)}}

(***************************************************************************)
(* SpecLoss: calculateRecentLosses and the adaptation applied to a trade   *)
(* history, equity and factor drawn at the start.                          *)
(***************************************************************************)
LossWindowLen == 4         \* records of every kind at the start of the last ten

VARIABLES lossIn, lossOut, lossApplied

lossVars == <<lossIn, lossOut, lossApplied>>

LossInput(factor, currentEquity, peakEquity, records) ==
    [factor |-> factor, equity |-> currentEquity, maxEquity |-> peakEquity,
     records |-> records]

\* No adaptation is under way.
InitLossIdle ==
    /\ lossIn = LossInput(0, 0, 0, <<>>)
    /\ lossOut = [streak |-> 0, factor |-> 0]
    /\ lossApplied = FALSE

\* The adaptation block of GenerateSignal on the input: the loss streak it
\* computes and the factor it leaves.
ApplyAdaptation ==
    /\ ~lossApplied
    /\ lossOut' = [streak |-> calculateRecentLosses(lossIn.records),
                   factor |-> Adapt(lossIn.factor, lossIn.equity, lossIn.maxEquity,
                                    lossIn.records)]
    /\ lossApplied' = TRUE
    /\ UNCHANGED lossIn

\* A trade record by its realized PnL and fee.
Trade(pnl, fee) == [RealizedPnL |-> pnl, Fee |-> fee]

\* The kinds of record: a loss, a win, a win turned into a loss by its fee,
\* and a trade of net zero.
TradeKinds == {Trade(-1, 0), Trade(1, 0), Trade(1, 2), Trade(0, 0)}

\* The histories: one to three older records, then the last ten, which
\* start with LossWindowLen records of every kind and end with wins, with
\* losses, or with a loss, a win and losses.
LossHistories ==
    LET L == Trade(-1, 0)
        W == Trade(1, 0)
        older == {<<L>>, <<L, L>>, <<W, L, L>>, <<W>>}
        rest == 10 - LossWindowLen
        tails == {[i \in 1..rest |-> W], [i \in 1..rest |-> L],
                  [i \in 1..rest |-> IF i = 2 THEN W ELSE L]}
    IN  {o \o w \o t : o \in older, w \in [1..LossWindowLen -> TradeKinds], t \in tails}

\* Factors 0.34, 1.0 and 2.0; equity at the peak 100 and 10% and 15% below.
LossInputs ==
    {LossInput(f, e, 100, r) :
        f \in {(FactorScale * 34) \div 100, FactorScale, 2 * FactorScale},
        e \in {100, 90, 85}, r \in LossHistories}

(***************************************************************************)
(* Specifications.                                                         *)
(***************************************************************************)
InitAgg ==
    /\ InitPipe
    /\ InitAggHist
    /\ focus \in {"BTC"} \X Intervals
    /\ InitExec(0)
    /\ InitSigDefault
    /\ InitRiskIdle
    /\ InitSnapIdle
    /\ InitStateIdle
    /\ InitLossIdle

NextAgg ==
    /\ \/ \E t \in AggTicks : AggRun(t)
       \/ KlineChanRecv(focus[1])
    /\ UNCHANGED execVars
    /\ UNCHANGED sigVars
    /\ UNCHANGED riskVars
    /\ UNCHANGED snapVars
    /\ UNCHANGED stateVars
    /\ UNCHANGED lossVars

InitFan ==
    /\ InitPipe
    /\ InitAggHist
    /\ focus = <<"BTC", "1m">>
    /\ InitExec(0)
    /\ InitSigDefault
    /\ InitRiskIdle
    /\ InitSnapIdle
    /\ InitStateIdle
    /\ InitLossIdle

NextFan ==
    /\ \/ ConnectorReadLoop
       \/ \E s \in Symbols : DataEngineStart(s)
       \/ \E a \in Aggregators : AggregatorRun(a)
       \/ \E s \in Symbols : KlineChanRecv(s)
    /\ UNCHANGED execVars
    /\ UNCHANGED sigVars
    /\ UNCHANGED riskVars
    /\ UNCHANGED snapVars
    /\ UNCHANGED stateVars
    /\ UNCHANGED lossVars

InitExecSpec ==
    /\ InitPipe
    /\ InitAggHist
    /\ focus = <<"BTC", "1m">>
    /\ \E fee \in ExecFeeRates : InitExec(fee)
    /\ InitSigDefault
    /\ InitRiskIdle
    /\ InitSnapIdle
    /\ InitStateIdle
    /\ InitLossIdle

NextExec ==
    /\ \/ \E signal \in ExecSignals : ExecuteSignal(signal)
       \/ \E ticker \in ExecTicks : StartMonitor(ticker)
    /\ UNCHANGED pipeVars
    /\ UNCHANGED aggHist
    /\ UNCHANGED sigVars
    /\ UNCHANGED riskVars
    /\ UNCHANGED snapVars
    /\ UNCHANGED stateVars
    /\ UNCHANGED lossVars

InitSigSpec ==
    /\ InitPipe
    /\ InitAggHist
    /\ focus = <<"BTC", "1m">>
    /\ InitExec(0)
    /\ \E rc \in SigRiskConfigs, state \in Regimes, executor \in {"nil", "sim"} :
          InitSig(rc, state, executor)
    /\ InitRiskIdle
    /\ InitSnapIdle
    /\ InitStateIdle
    /\ InitLossIdle

NextSig ==
    /\ \E c \in SigCalls : GenerateSignal(c[1], c[2], c[3], c[4])
    /\ UNCHANGED pipeVars
    /\ UNCHANGED aggHist
    /\ UNCHANGED execVars
    /\ UNCHANGED riskVars
    /\ UNCHANGED snapVars
    /\ UNCHANGED stateVars
    /\ UNCHANGED lossVars

\* The inputs of calculateRiskAndSize: every risk configuration, both
\* directions, entry prices 1, 95, 100 and 105, ATR 0, 2 and 200, and the
\* ATR factor left out or given as 0.0, 0.7 or 1.5.
RiskInputs ==
    {RiskInput(rc, dir, SigP(entry), SigP(atr), atrFactor) :
        rc \in SigRiskConfigs, dir \in {"long", "short"},
        entry \in {1, 95, 100, 105}, atr \in {0, 2, 200},
        atrFactor \in {<<>>, <<0>>, <<7>>, <<15>>}}

InitRiskSpec ==
    /\ InitPipe
    /\ InitAggHist
    /\ focus = <<"BTC", "1m">>
    /\ InitExec(0)
    /\ InitSigDefault
    /\ riskIn \in RiskInputs
    /\ riskOut = SignalNone
    /\ riskApplied = FALSE
    /\ InitSnapIdle
    /\ InitStateIdle
    /\ InitLossIdle

NextRisk ==
    /\ ApplyRiskAndSize
    /\ UNCHANGED pipeVars
    /\ UNCHANGED aggHist
    /\ UNCHANGED execVars
    /\ UNCHANGED sigVars
    /\ UNCHANGED snapVars
    /\ UNCHANGED stateVars
    /\ UNCHANGED lossVars

InitSnapSpec ==
    /\ InitPipe
    /\ InitAggHist
    /\ focus = <<"BTC", "1m">>
    /\ InitExec(0)
    /\ InitSigDefault
    /\ InitRiskIdle
    /\ InitSnapIdle
    /\ InitStateIdle
    /\ InitLossIdle

NextSnap ==
    /\ \/ \E signal \in SnapSignals : SnapExecuteSignal(signal)
       \/ \E ticker \in SnapTicks : SnapStartMonitor(ticker)
       \/ GetCurrentPositionRead
    /\ UNCHANGED pipeVars
    /\ UNCHANGED aggHist
    /\ UNCHANGED sigVars
    /\ UNCHANGED riskVars
    /\ UNCHANGED stateVars
    /\ UNCHANGED lossVars

InitStateSpec ==
    /\ InitPipe
    /\ InitAggHist
    /\ focus = <<"BTC", "1m">>
    /\ InitExec(0)
    /\ InitSigDefault
    /\ InitRiskIdle
    /\ InitSnapIdle
    /\ InitStateIdle
    /\ InitLossIdle

NextState ==
    /\ \E c \in StateCalls : CheckAndTransition(c[1], c[2], c[3])
    /\ UNCHANGED pipeVars
    /\ UNCHANGED aggHist
    /\ UNCHANGED execVars
    /\ UNCHANGED riskVars
    /\ UNCHANGED snapVars
    /\ UNCHANGED lossVars

InitLossSpec ==
    /\ InitPipe
    /\ InitAggHist
    /\ focus = <<"BTC", "1m">>
    /\ InitExec(0)
    /\ InitSigDefault
    /\ InitRiskIdle
    /\ InitSnapIdle
    /\ InitStateIdle
    /\ lossIn \in LossInputs
    /\ lossOut = [streak |-> 0, factor |-> 0]
    /\ lossApplied = FALSE

NextLoss ==
    /\ ApplyAdaptation
    /\ UNCHANGED pipeVars
    /\ UNCHANGED aggHist
    /\ UNCHANGED execVars
    /\ UNCHANGED sigVars
    /\ UNCHANGED riskVars
    /\ UNCHANGED snapVars
    /\ UNCHANGED stateVars

vars == <<tickerChan, forwardTickerChan, broadcasterTickerChan, klineChan,
          Current, sent, fate,
          focus, nfed, gcur, lastClosed, transitions, emitted, dropped,
          lastTs, monotone,
          cfg, balance, equity, maxEquity, marginUsed, lastPrice,
          lastPriceTickerTimestamp, position, tradeHistory, nops, lastCall, rt,
          onlyGenerated, ticksOrdered,
          riskCfg, CurrentState, sgExecutor, sgSignal, sgCall, nsig, sgPanic,
          riskIn, riskOut, riskApplied,
          snapPc, snapOut, snapSeen, nsnap,
          smCall, nsm,
          lossIn, lossOut, lossApplied>>

SpecAgg == InitAgg /\ [][NextAgg]_vars
SpecFan == InitFan /\ [][NextFan]_vars
SpecExec == InitExecSpec /\ [][NextExec]_vars
SpecSig == InitSigSpec /\ [][NextSig]_vars
SpecRisk == InitRiskSpec /\ [][NextRisk]_vars
SpecSnap == InitSnapSpec /\ [][NextSnap]_vars
SpecState == InitStateSpec /\ [][NextState]_vars
SpecLoss == InitLossSpec /\ [][NextLoss]_vars

(***************************************************************************)
(* Claims about the tick -> candle pipeline.                               *)
(***************************************************************************)
Ordered(k) == k.Low <= k.Open /\ k.Open <= k.High /\ k.Low <= k.Close /\ k.Close <= k.High

\* C1: every tick an engine loop accepted while its forward queue had room
\* is offered to every aggregator of that engine: it is in the aggregator's
\* input channel or the aggregator has processed it.
C1_AcceptedTickOfferedToEveryAggregator ==
    \A i \in 1..Len(fate) :
        fate[i].kind = "accepted" =>
            \A iv \in Intervals :
                \/ \E j \in 1..Len(inChan(<<fate[i].sym, iv>>)) :
                       inChan(<<fate[i].sym, iv>>)[j].Id = i
                \/ fate[i] = Fate("aggregated", fate[i].sym, iv)

\* C5: the in-progress candle after every processed tick, and every candle
\* on the output queue, has low <= open <= high and low <= close <= high.
C5_CandleOrdered ==
    /\ Current[focus].StartTime # ZeroTime => Ordered(Current[focus])
    /\ \A i \in 1..Len(klineChan[focus[1]]) : Ordered(klineChan[focus[1]][i])

\* C6: a candle of an aggregator of timeframe T starts at the opening tick's
\* timestamp truncated to T and ends T - 1ms later, and is closed only by a
\* tick whose T-aligned bucket start is after the candle's start.
C6_CandleAlignedToTimeframe ==
    LET T == ParseIntervalDuration(focus[2])
        cur == Current[focus]
    IN  /\ cur.StartTime # ZeroTime =>
              /\ cur.StartTime = Truncate(gcur.openTs, T)
              /\ cur.EndTime = cur.StartTime + T - 1
        /\ lastClosed.closed =>
              Truncate(lastClosed.by.Timestamp, T) > lastClosed.kline.StartTime

\* C7: a closed candle has high = the maximum, low = the minimum and
\* close = the last of the prices of the ticks applied to it while it was in
\* progress, and volume = the sum of their volumes; when the ticks came in
\* time order these are ticks of the candle's interval [start, end].
C7_ClosedCandleAggregatesItsTicks ==
    lastClosed.closed =>
        /\ lastClosed.kline.High = lastClosed.ticks.high
        /\ lastClosed.kline.Low = lastClosed.ticks.low
        /\ lastClosed.kline.Volume = lastClosed.ticks.vol
        /\ lastClosed.kline.Close = lastClosed.ticks.last
        /\ lastClosed.ordered => lastClosed.ticks.inside

\* C7 witness: a closed candle built from several ticks of different prices.
C7_Witness ==
    /\ lastClosed.closed
    /\ lastClosed.ticks.n >= 2
    /\ lastClosed.kline.High > lastClosed.kline.Low
    /\ lastClosed.kline.Volume > 0

\* C8 as claimed: every bucket transition (a tick after the in-progress
\* candle's interval) puts exactly one candle on the output queue.
C8_EmittedOncePerTransition == emitted = transitions

\* The candles queued for instance s are as before, or the head was received.
QueueKept(s) ==
    \/ klineChan'[s] = klineChan[s]
    \/ Len(klineChan[s]) > 0 /\ klineChan'[s] = Tail(klineChan[s])

\* C8 amended: a bucket transition puts the closed candle on the output queue
\* once when the queue has room and drops it when the queue is full; no other
\* tick emits, and a queued candle is never changed.
C8_EmittedOrDroppedOncePerTransition ==
    [][LET s == focus[1]
           room == Len(klineChan[s]) < KlineChanCap
       IN  /\ transitions' = transitions + 1 /\ room =>
                /\ klineChan'[s] = Append(klineChan[s], Current[focus])
                /\ emitted' = emitted + 1 /\ dropped' = dropped
           /\ transitions' = transitions + 1 /\ ~room =>
                /\ klineChan'[s] = klineChan[s]
                /\ emitted' = emitted /\ dropped' = dropped + 1
           /\ transitions' = transitions =>
                /\ QueueKept(s)
                /\ emitted' = emitted /\ dropped' = dropped]_vars

\* C8 witness: one closed candle was queued and a later one dropped.
C8_Witness == emitted >= 1 /\ dropped >= 1 /\ emitted + dropped = transitions

\* The connector's step: the tick is appended when tickerChan has room and
\* dropped, leaving the queue as it was, when it is full.
ConnectorDropsNewest ==
    sent' = sent + 1 =>
        IF Len(tickerChan) < TickerChanCap
        THEN /\ Len(tickerChan') = Len(tickerChan) + 1
             /\ SubSeq(tickerChan', 1, Len(tickerChan)) = tickerChan
             /\ tickerChan'[Len(tickerChan')].Id = sent'
             /\ fate'[sent'].kind = "queued"
        ELSE tickerChan' = tickerChan /\ fate'[sent'].kind = "dropped"

\* An engine loop's step on a tick of its symbol: forwarded when the forward
\* queue has room, dropped otherwise; the loop goes on either way.
EngineDropsNewest ==
    \A s \in Symbols :
        LET took == Len(tickerChan) > 0 /\ sent' = sent
                    /\ fate'[Head(tickerChan).Id].who = "engine"
                    /\ fate'[Head(tickerChan).Id].sym = s
                    /\ Head(tickerChan).Symbol = s
        IN  /\ took /\ Len(forwardTickerChan[s]) < ForwardChanCap =>
                 forwardTickerChan'[s] = Append(forwardTickerChan[s], Head(tickerChan))
            /\ took /\ Len(forwardTickerChan[s]) >= ForwardChanCap =>
                 forwardTickerChan'[s] = forwardTickerChan[s]
            /\ ~took => forwardTickerChan'[s] = forwardTickerChan[s]

\* An aggregator's step that closes a candle: queued when klineChan has room,
\* dropped otherwise; a full klineChan changes only by a receive.
AggregatorDropsNewest ==
    \A a \in Aggregators :
        LET closes == /\ Current[a].StartTime # ZeroTime
                      /\ Current'[a].StartTime > Current[a].StartTime
        IN  /\ closes /\ Len(klineChan[a[1]]) < KlineChanCap =>
                 klineChan'[a[1]] = Append(klineChan[a[1]], Current[a])
            /\ closes /\ Len(klineChan[a[1]]) >= KlineChanCap =>
                 klineChan'[a[1]] = klineChan[a[1]]
            /\ Current'[a] # Current[a] => Len(tickerChan') = Len(tickerChan) - 1

\* No producer waits: the connector can always take its next tick, and every
\* engine loop and aggregator can take the next queued tick, whatever the
\* fill of the queues they write to.
NoProducerBlocks ==
    /\ sent < MaxTicks => ENABLED ConnectorReadLoop
    /\ Len(tickerChan) > 0 =>
          /\ \A s \in Symbols : ENABLED DataEngineStart(s)
          /\ \A a \in Aggregators : ENABLED AggregatorRun(a)

\* C9: no producer blocks on a full queue; on a full queue the new item is
\* dropped and the queue is left as it was; an item offered when the queue
\* has room is queued, whatever was dropped before.
C9_FullQueueDropsNeverBlocks ==
    /\ []NoProducerBlocks
    /\ [][ConnectorDropsNewest /\ EngineDropsNewest /\ AggregatorDropsNewest]_vars

\* C9 witness: a tick was dropped on a full tickerChan, a later tick was
\* queued and taken by an engine loop or an aggregator, and an engine loop's
\* forward queue is full.
C9_Witness ==
    /\ \E i, j \in 1..Len(fate) :
          i < j /\ fate[i].kind = "dropped" /\ fate[j].kind \in {"accepted", "aggregated"}
    /\ \E s \in Symbols : Len(forwardTickerChan[s]) = ForwardChanCap

\* C10: no tick of symbol S is taken off the upstream channel by a consumer
\* of another instance: a tick that left the channel was accepted by the
\* engine loop of its own symbol or processed by an aggregator of its symbol.
C10_NoInstanceTakesAnothersTick ==
    \A i \in 1..Len(fate) : fate[i].kind # "discarded"


\* C11: every tick an engine loop accepted is offered to the broadcast queue
\* of its instance, where it stays until the monitor takes it.  (The monitor
\* ranges over the channel GetBroadcasterTickerChannel returns; a receive
\* from a nil channel is never ready, so the monitor takes no step here.)
C11_AcceptedTickBroadcast ==
    \A i \in 1..Len(fate) :
        fate[i].kind \in {"accepted", "acceptedFull"} =>
            /\ ~broadcasterTickerChan[fate[i].sym].isNil
            /\ \E j \in 1..Len(broadcasterTickerChan[fate[i].sym].buf) :
                   broadcasterTickerChan[fate[i].sym].buf[j].Id = i

(***************************************************************************)
(* Executor claims (SpecExec).                                             *)
(***************************************************************************)

\* C2: starting from a flat position, ExecuteSignal(Open) followed by
\* ExecuteSignal(Close) with no price change in between and fee rate 0
\* records realized PnL 0 and leaves balance equal to its value before the
\* Open.
C2_RoundTripRestoresBalance ==
    (rt.phase = "closed" /\ cfg.FeeRate = 0)
        => /\ Len(tradeHistory) > 0
           /\ tradeHistory[Len(tradeHistory)].RealizedPnL = 0
           /\ balance = rt.bal0

\* C3: ExecuteSignal with action Open while the position is non-flat is
\* ignored: position (side, size, average price, stop, take-profit,
\* liquidation price), balance, margin used and trade history are unchanged.
C3_OpenOnNonFlatIgnored ==
    [][(/\ position.Side # "flat"
        /\ nops' = nops + 1
        /\ lastCall'.op = "ExecuteSignal"
        /\ lastCall'.arg.Action = "OPEN")
          => /\ position'.Side = position.Side
             /\ position'.Size = position.Size
             /\ position'.AvgPrice = position.AvgPrice
             /\ position'.StopLossPrice = position.StopLossPrice
             /\ position'.TakeProfitPrice = position.TakeProfitPrice
             /\ position'.LiquidationPrice = position.LiquidationPrice
             /\ balance' = balance
             /\ marginUsed' = marginUsed
             /\ tradeHistory' = tradeHistory]_vars

\* The last call was a monitor tick on an open position.
MonitorOnOpen == lastCall.op = "StartMonitor" /\ lastCall.pre.Side # "flat"

\* The last call appended a trade record.
Recorded == nops > 0 /\ Len(tradeHistory) = lastCall.hist0 + 1

\* C14: a monitor tick on which the stop-loss condition of the open position
\* holds, alone or with the take-profit or liquidation condition, closes the
\* position in that tick with the trade record's trigger reason "SL".
C14_StopLossLabelWins ==
    (MonitorOnOpen /\ checkStopLoss(lastCall.pre, lastCall.arg.Price))
        => /\ position.Side = "flat"
           /\ Recorded
           /\ tradeHistory[Len(tradeHistory)].TriggerReason = "SL"

\* C14 witness: the stop-loss held together with the liquidation condition
\* and the record says "SL".
C14_Witness ==
    /\ MonitorOnOpen
    /\ checkStopLoss(lastCall.pre, lastCall.arg.Price)
    /\ checkLiquidation(lastCall.pre, lastCall.arg.Price)
    /\ Recorded
    /\ tradeHistory[Len(tradeHistory)].TriggerReason = "SL"

C19_InsufficientMarginNoEffect ==
    [][(/\ nops' = nops + 1
        /\ lastCall'.op = "ExecuteSignal"
        /\ lastCall'.arg.Action = "OPEN"
        /\ balance < Notional(lastCall'.arg.PositionSize, lastPrice) \div cfg.Leverage)
          => /\ lastCall'.err = "insufficient margin"
             /\ position' = position
             /\ balance' = balance
             /\ marginUsed' = marginUsed
             /\ equity' = equity
             /\ tradeHistory' = tradeHistory]_vars

\* C19 witness: an Open was rejected for insufficient margin while a
\* position was open.
C19_Witness ==
    /\ lastCall.op = "ExecuteSignal"
    /\ lastCall.arg.Action = "OPEN"
    /\ lastCall.err = "insufficient margin"
    /\ position.Side # "flat"

\* C21: the trade history is append-only and time-ordered: a step never
\* shortens it and never changes a record already in it, and while the
\* monitor's ticks came with non-decreasing timestamps the exit times are
\* non-decreasing along it.
C21_HistoryAppendOnlyOrdered ==
    /\ [][/\ Len(tradeHistory') >= Len(tradeHistory)
          /\ SubSeq(tradeHistory', 1, Len(tradeHistory)) = tradeHistory]_vars
    /\ [](ticksOrdered =>
            \A i, j \in 1..Len(tradeHistory) :
                i < j => tradeHistory[i].ExitTime <= tradeHistory[j].ExitTime)

\* Two records with different exit times, after ordered ticks.
C21_Witness ==
    /\ ticksOrdered
    /\ Len(tradeHistory) >= 2
    /\ tradeHistory[1].ExitTime < tradeHistory[2].ExitTime

\* C25: ExecuteSignal fills at the last-known price, whatever the signal's
\* quoted price: a position it opens has avg_price = the last price at the
\* time of the call, and a trade record it appends has exit_price = that
\* price.
C25_FillAtLastPrice ==
    [][(nops' = nops + 1 /\ lastCall'.op = "ExecuteSignal" /\ lastCall'.err = "nil")
         => /\ lastCall'.arg.Action = "OPEN" => position'.AvgPrice = lastPrice
            /\ Len(tradeHistory') > Len(tradeHistory)
                 => tradeHistory'[Len(tradeHistory')].ExitPrice = lastPrice]_vars

\* C25 witness: a Close quoted at 9 filled at the tick price 11, on a
\* position whose Open was filled at the initial price 1.0.
C25_Witness ==
    /\ lastCall.op = "ExecuteSignal"
    /\ lastCall.arg.Action = "CLOSE"
    /\ lastCall.arg.Price = 9 * PriceScale
    /\ lastPrice = 11 * PriceScale
    /\ Len(tradeHistory) > lastCall.hist0
    /\ tradeHistory[Len(tradeHistory)].ExitPrice = 11 * PriceScale
    /\ tradeHistory[Len(tradeHistory)].EntryPrice = InitialLastPrice * PriceScale

\* C20: position side = Flat if and only if position size = 0, in every
\* state reached by executing signals the Signal Generator returns and by
\* monitor ticks.
C20_FlatIffSizeZero ==
    onlyGenerated => ((position.Side = "flat") <=> (position.Size = 0))

(***************************************************************************)
(* Signal generator claims (SpecSig).                                      *)
(***************************************************************************)

C32_HourlyCandleTriggersAdaptation ==
    (/\ nsig > 0
     /\ sgCall.kline.Interval = "1h"
     /\ (sgCall.kline.EndTime + 1) % (60 * Minute) = 0)
      => sgCall.adapted

\* C23: at adaptation time GenerateSignal never crashes: the call returns,
\* and when the executor's equity and trade history cannot be obtained (the
\* generator holds no executor) the position scale factor keeps its value.
C23_AdaptationNeverCrashes ==
    [][(nsig' = nsig + 1 /\ sgCall'.adapted)
         => /\ ~sgPanic'
            /\ (sgExecutor = "nil"
                  => riskCfg'.PositionScaleFactor = riskCfg.PositionScaleFactor)]_vars

\* The last call of GenerateSignal ran the adaptation on at least 11 records.
AdaptationRan ==
    nsig > 0 /\ sgCall.adapted /\ ~sgPanic /\ Len(sgCall.ex.records) > 10

\* C12: after every adaptation step the position scale factor is within
\* [MinScaleFactor, MaxScaleFactor] = [0.3, 1.5], whatever it was before.
C12_ScaleFactorBounded ==
    AdaptationRan =>
        /\ riskCfg.PositionScaleFactor >= MinScaleFactor
        /\ riskCfg.PositionScaleFactor <= MaxScaleFactor

\* C12 witness: an adaptation step ran on a factor above the maximum.
C12_Witness ==
    /\ AdaptationRan
    /\ sgCall.factor0 > MaxScaleFactor
    /\ riskCfg.PositionScaleFactor = MaxScaleFactor

\* C13: an adaptation step with drawdown (peak - equity) / peak >= 0.15 sets
\* the factor to the minimum 0.3, whatever the factor and the loss streak were.
C13_DrawdownForcesMinimum ==
    (/\ AdaptationRan
     /\ (sgCall.ex.maxEquity - sgCall.ex.equity) * 100 >= 15 * sgCall.ex.maxEquity)
        => riskCfg.PositionScaleFactor = MinScaleFactor

\* C13 witness: drawdown exactly 0.15 with a loss streak of 3 or more on a
\* factor above the maximum: the factor is the minimum, not factor * 0.85.
C13_Witness ==
    /\ AdaptationRan
    /\ (sgCall.ex.maxEquity - sgCall.ex.equity) * 100 = 15 * sgCall.ex.maxEquity
    /\ calculateRecentLosses(sgCall.ex.records) >= LossStreakThreshold
    /\ sgCall.factor0 > MaxScaleFactor
    /\ riskCfg.PositionScaleFactor = MinScaleFactor

\* C4: whenever risk sizing rejects its inputs (stop price <= 0, max risk
\* amount <= 0, zero stop distance or zero price difference, or final size
\* below min_position_size), the signal GenerateSignal returns for that
\* candle has action None; no Open signal is emitted for those inputs.
C4_RejectedSizingReturnsNone ==
    (nsig > 0 /\ sgCall.sized /\ sgCall.risk.Action = "NONE")
        => sgSignal.Action = "NONE"

\* The last call of GenerateSignal was on a 5m candle with a ready snapshot
\* and a flat position.
OpenEvaluated ==
    /\ nsig > 0 /\ ~sgPanic
    /\ sgCall.kline.Interval = "5m" /\ sgCall.ta.ready
    /\ sgCall.position.Direction = "flat"

\* The trend rule for direction dir applies to the last call, and sizing
\* with the default ATR multiplier accepts its inputs.
TrendRuleApplies(dir) ==
    /\ OpenEvaluated
    /\ IF dir = "long"
       THEN CurrentState = "STRONG_UP_TREND" /\ sgCall.kline.Close > sgCall.ta.MA
       ELSE CurrentState = "STRONG_DOWN_TREND" /\ sgCall.kline.Close < sgCall.ta.MA
    /\ calculateRiskAndSize(riskCfg, dir, sgCall.kline.Close, sgCall.ta.ATR,
                            <<>>).Action # "NONE"

\* C16: flat, ready 5m snapshot, StrongUpTrend with close > MA
\* (StrongDownTrend with close < MA): GenerateSignal emits an Open long
\* (short) sized with the default ATR stop multiplier: stop = entry - ATR x
\* default multiplier (entry + ... for short) and position size > 0.
C16_TrendOpenUsesDefaultMultiplier ==
    \A dir \in {"long", "short"} :
        TrendRuleApplies(dir) =>
            LET d == (sgCall.ta.ATR * riskCfg.DefaultStopLossATRMultiplier) \div 10
            IN  /\ sgSignal.Action = "OPEN"
                /\ sgSignal.Direction = dir
                /\ sgSignal.StopLossPrice =
                       IF dir = "long" THEN sgCall.kline.Close - d
                       ELSE sgCall.kline.Close + d
                /\ sgSignal.PositionSize > 0

\* The low-volatility open rule applies to the last call.
LowVolRuleApplies ==
    /\ OpenEvaluated
    /\ CurrentState = "LOW_VOL_RANGING"
    /\ sgCall.kline.Close < sgCall.ta.BBandsDn
    /\ sgCall.ta.RSI < 50

\* The signal is an Open long from LowVolRange with stop distance ATR x 0.7.
LowVolOpen ==
    /\ sgSignal.Action = "OPEN"
    /\ sgSignal.Direction = "long"
    /\ sgSignal.SourceState = "LOW_VOL_RANGING"
    /\ sgCall.kline.Close - sgSignal.StopLossPrice = (sgCall.ta.ATR * 7) \div 10

\* C17 as claimed: flat, LowVolRange, close < lower band and RSI < 50:
\* GenerateSignal emits an Open long whose stop distance is ATR x 0.7, with
\* source regime LowVolRange.
C17_LowVolOpenUsesFactor07 == LowVolRuleApplies => LowVolOpen

\* C17 amended: the same when risk sizing accepts the inputs (stop > 0, max
\* risk > 0, ATR > 0, final size >= the minimum size).
C17_LowVolOpenUsesFactor07WhenSized ==
    (LowVolRuleApplies /\ sgCall.risk.Action # "NONE") => LowVolOpen

\* C17 witness: the rule fired with a stop distance ATR x 0.7 that differs
\* from ATR x the default multiplier.
C17_Witness ==
    /\ LowVolRuleApplies /\ sgCall.risk.Action # "NONE"
    /\ LowVolOpen
    /\ sgSignal.PositionSize > 0
    /\ (sgCall.ta.ATR * 7) \div 10
          # (sgCall.ta.ATR * riskCfg.DefaultStopLossATRMultiplier) \div 10

(***************************************************************************)
(* Risk sizing claims (SpecRisk).                                          *)
(***************************************************************************)

\* The scenario: entry 100, long, ATR 2, multiplier 1.5 (the default, or
\* passed), risk-reward ratio 1.5, max_total_capital 10000,
\* max_per_trade_risk 0.01, scale factor 1.0, a minimum size it passes.
RiskScenario ==
    /\ riskApplied
    /\ riskIn.dir = "long" /\ riskIn.entryPrice = SigP(100) /\ riskIn.atr = SigP(2)
    /\ riskIn.atrFactor \in {<<>>, <<15>>}
    /\ riskIn.rc.DefaultStopLossATRMultiplier = 15
    /\ riskIn.rc.DefaultRiskRewardRatio = 15
    /\ riskIn.rc.MaxTotalCapital = 10000 /\ riskIn.rc.MaxPerTradeRisk = 10
    /\ riskIn.rc.PositionScaleFactor = FactorScale
    /\ riskIn.rc.MinPositionSize <= 33 * SizeScale

\* The size is 100/3, to the precision 1/SizeScale of the model.
SizeIsHundredThirds(size) == size * 3 <= 100 * SizeScale /\ 100 * SizeScale < (size + 1) * 3

\* C18 as claimed: the scenario yields stop = 97, take-profit = 101.5 and
\* raw size = final size = 100/3.
C18_ScenarioTakeProfitFromStop ==
    RiskScenario =>
        /\ riskOut.StopLossPrice = SigP(97)
        /\ riskOut.TakeProfitPrice = SigP(101) + SigPriceScale \div 2
        /\ SizeIsHundredThirds(riskOut.PositionSize)

\* C18 amended: the scenario yields stop = 97, take-profit = 100 + 3 x 1.5 =
\* 104.5, risked amount 100 and raw size = final size = 100/3.
C18_ScenarioTakeProfitFromEntry ==
    RiskScenario =>
        /\ riskOut.StopLossPrice = SigP(97)
        /\ riskOut.TakeProfitPrice = SigP(104) + SigPriceScale \div 2
        /\ riskOut.RiskedUSD = 100
        /\ SizeIsHundredThirds(riskOut.PositionSize)

\* C18 witness: the scenario was sized and accepted.
C18_Witness ==
    /\ RiskScenario
    /\ riskOut.Action # "NONE"
    /\ riskOut.PositionSize > 0
    /\ riskOut.Direction = "long"

(***************************************************************************)
(* Claims about the position snapshot.                                     *)
(***************************************************************************)
\* C22: the position snapshot GetCurrentPosition hands to the Signal
\* Generator equals the position the executor held at one moment of the
\* call, never a mix of fields from before and after a concurrent open or
\* close.
C22_SnapshotIsOneState ==
    (snapPc = Len(PositionFields)) => \E p \in snapSeen : snapOut = PositionOf(p)

(***************************************************************************)
(* Claims about the regime.                                                *)
(***************************************************************************)
\* The last call of CheckAndTransition was on an hourly candle with a ready
\* 1h snapshot.
Evaluated == nsm > 0 /\ smCall.kline.Interval = "1h" /\ smCall.h1.ready

\* The last call was on an hourly candle with the 1h snapshot not ready.
Skipped == nsm > 0 /\ smCall.kline.Interval = "1h" /\ ~smCall.h1.ready

\* The 4h confirmation test of the up-trend: 4h close > 4h MA, or the 4h
\* snapshot is unavailable.
Confirm4h == ~smCall.h4.ready \/ smCall.h4.Close > smCall.h4.MA

FourRegimes ==
    {"STRONG_UP_TREND", "STRONG_DOWN_TREND", "HIGH_VOL_RANGING", "LOW_VOL_RANGING"}

\* C24: CheckAndTransition on an hourly candle while the 1h snapshot is not
\* ready leaves the regime unchanged (the call returns; a later hourly candle
\* is evaluated again, as in the witness).
C24_NotReadyLeavesRegime ==
    [][(nsm' = nsm + 1 /\ smCall'.kline.Interval = "1h" /\ ~smCall'.h1.ready)
         => CurrentState' = CurrentState]_vars

\* C24 witness: a skipped hourly candle after an evaluated one, the regime of
\* the evaluation kept.
C24_Witness ==
    Skipped /\ smCall.state0 = "STRONG_UP_TREND" /\ CurrentState = "STRONG_UP_TREND"

\* C26: once the regime has left Initializing it never becomes Initializing
\* again, and after an evaluation with a ready 1h snapshot it is one of the
\* four regimes.
C26_NeverBackToInitializing ==
    /\ [][CurrentState # "INITIALIZING" => CurrentState' # "INITIALIZING"]_vars
    /\ [](Evaluated => CurrentState \in FourRegimes)

\* C26 witness: an evaluation that moved the machine from one of the four
\* regimes to another.
C26_Witness ==
    /\ Evaluated
    /\ smCall.state0 \in FourRegimes
    /\ CurrentState # smCall.state0

C28_DownTrendExactlyWhen ==
    Evaluated =>
        /\ (CurrentState = "STRONG_DOWN_TREND")
             <=> (/\ smCall.h1.Close < smCall.h1.MA
                  /\ smCall.h1.RSI <= 100 - 60
                  /\ ~Confirm4h)
        /\ ~(/\ checkStrongTrend(smCall.h1, smCall.h4).isUpTrend
             /\ checkStrongTrend(smCall.h1, smCall.h4).isDownTrend)

\* C28 witness: a down-trend at RSI exactly 40, entered from LowVolRange.
C28_Witness ==
    /\ Evaluated
    /\ smCall.h1.RSI = 40
    /\ CurrentState = "STRONG_DOWN_TREND"
    /\ smCall.state0 = "LOW_VOL_RANGING"

\* C29: after an evaluation in which neither trend test fired the regime is
\* HighVolRange if ATR / last 1h close >= 0.0005 and LowVolRange otherwise,
\* and LowVolRange for a last close of zero.
C29_RangingByVolatility ==
    (/\ Evaluated
     /\ ~checkStrongTrend(smCall.h1, smCall.h4).isUpTrend
     /\ ~checkStrongTrend(smCall.h1, smCall.h4).isDownTrend)
      => CurrentState =
           IF smCall.h1.Close = 0 THEN "LOW_VOL_RANGING"
           ELSE IF smCall.h1.ATR * 10000 >= 5 * smCall.h1.Close
           THEN "HIGH_VOL_RANGING"
           ELSE "LOW_VOL_RANGING"

\* C29 witness: a last close of zero with a positive ATR gives LowVolRange,
\* from HighVolRange.
C29_Witness ==
    /\ Evaluated
    /\ smCall.h1.Close = 0
    /\ smCall.h1.ATR > 0
    /\ CurrentState = "LOW_VOL_RANGING"
    /\ smCall.state0 = "HIGH_VOL_RANGING"

(***************************************************************************)
(* Claims about the loss streak.                                           *)
(***************************************************************************)
\* The greatest element of a non-empty set of numbers.
SetMax(S) == CHOOSE x \in S : \A y \in S : y <= x

\* A record is a loss: realized_pnl - fee < 0.
IsLoss(r) == r.RealizedPnL - r.Fee < 0

\* The ten most recent records, oldest first.
LastTen(records) == SubSeq(records, Max(Len(records) - 10, 0) + 1, Len(records))

\* The length of the longest run of consecutive losses in recs.
LongestLossRun(recs) ==
    SetMax({n \in 0..Len(recs) :
              n = 0 \/ \E i \in 1..(Len(recs) - n + 1) :
                         \A k \in i..(i + n - 1) : IsLoss(recs[k])})

\* Drawdown below 0.15 and a loss streak of at least 3 on the input.
StreakCase ==
    /\ lossApplied
    /\ (lossIn.maxEquity - lossIn.equity) * 100 < 15 * lossIn.maxEquity
    /\ lossOut.streak >= 3

\* C31: the loss streak is the longest run of consecutive losses among the
\* 10 most recent records; with drawdown < 0.15 and a streak >= 3 the factor
\* is multiplied by 0.85 and clamped to at least 0.3.
C31_StreakScalesFactor ==
    lossApplied =>
        /\ lossOut.streak = LongestLossRun(LastTen(lossIn.records))
        /\ StreakCase => lossOut.factor = Max((lossIn.factor * 85) \div 100, MinScaleFactor)

\* C31 amended: as C31, the factor after the multiplication being clamped to
\* [0.3, 1.5].
C31_StreakScalesFactorClamped ==
    lossApplied =>
        /\ lossOut.streak = LongestLossRun(LastTen(lossIn.records))
        /\ StreakCase =>
             lossOut.factor = Min(MaxScaleFactor,
                                  Max((lossIn.factor * 85) \div 100, MinScaleFactor))

\* C31 witness: a streak of exactly 3 inside the last ten, made of losses by
\* fee, with losses older than the last ten next to it, scaling 1.0 to 0.85.
C31_Witness ==
    /\ StreakCase
    /\ lossOut.streak = 3
    /\ Len(lossIn.records) > 11
    /\ IsLoss(lossIn.records[Len(lossIn.records) - 10])
    /\ IsLoss(lossIn.records[Len(lossIn.records) - 9])
    /\ lossIn.records[Len(lossIn.records) - 9] = Trade(1, 2)
    /\ lossIn.factor = FactorScale
    /\ lossOut.factor = (FactorScale * 85) \div 100

(***************************************************************************)
(* Claims about the close rules of the signal generator.                   *)
(***************************************************************************)
\* The last call of GenerateSignal was on a 5m candle with a ready snapshot
\* and a non-flat position.
CloseEvaluated ==
    /\ nsig > 0
    /\ ~sgPanic
    /\ sgCall.kline.Interval = "5m"
    /\ sgCall.ta.ready
    /\ sgCall.position.Direction # "flat"

LastHist == sgCall.ta.MACDHist[Len(sgCall.ta.MACDHist)]
PrevHist == sgCall.ta.MACDHist[Len(sgCall.ta.MACDHist) - 1]

\* Trend exit of the last call: the regime is LowVolRange, or the histogram
\* crossed zero against the held direction.
TrendExitCase ==
    \/ CurrentState = "LOW_VOL_RANGING"
    \/ sgCall.position.Direction = "long" /\ PrevHist >= 0 /\ LastHist < 0
    \/ sgCall.position.Direction = "short" /\ PrevHist <= 0 /\ LastHist > 0

\* Mean-reversion exit of the last call as the source tests it: the position
\* carries the source regime LowVolRange and the RSI is strictly inside
\* (45, 55).
RangeExitCase ==
    /\ sgCall.position.SourceState = "LOW_VOL_RANGING"
    /\ sgCall.ta.RSI > 45 /\ sgCall.ta.RSI < 55

CloseAll == sgSignal.Action = "CLOSE" /\ sgSignal.PositionSize = 0

\* C33: with a non-flat position and a ready 5m snapshot GenerateSignal
\* returns Close with position size 0 when the regime is LowVolRange or the
\* MACD histogram crossed zero against the held direction (long: >= 0 to
\* < 0, short: <= 0 to > 0); when no close rule matches it returns None; it
\* never returns Open.
C33_CloseRules ==
    CloseEvaluated =>
        /\ TrendExitCase => CloseAll
        /\ ~TrendExitCase /\ ~RangeExitCase => sgSignal = SignalNone
        /\ sgSignal.Action \in {"CLOSE", "NONE"}

\* C33 witness: a long position outside LowVolRange closed by a histogram
\* going from exactly 0 to -1, with the mean-reversion exit not applying.
C33_Witness ==
    /\ CloseEvaluated
    /\ CurrentState = "HIGH_VOL_RANGING"
    /\ sgCall.position.Direction = "long"
    /\ sgCall.position.SourceState = "STRONG_UP_TREND"
    /\ PrevHist = 0 /\ LastHist = -1
    /\ CloseAll

\* C34: for a position whose source regime is LowVolRange, GenerateSignal on
\* a 5m candle with a ready snapshot returns Close whenever the RSI is
\* within [45, 55], the bounds included, whatever the regime and the MACD
\* histogram are.
C34_MeanReversionExitInclusive ==
    /\ CloseEvaluated
    /\ sgCall.position.SourceState = "LOW_VOL_RANGING"
    /\ sgCall.ta.RSI >= 45 /\ sgCall.ta.RSI <= 55
    => sgSignal.Action = "CLOSE"

\* C40: when a call returned the long Open of the LowVolRange rule and the
\* next call is on a 5m candle with a ready snapshot, the long position and
\* the regime still LowVolRange, that call returns Close, whatever the RSI
\* and the MACD histogram are.
C40_LowVolLongClosedOnNextCandle ==
    [][(/\ sgSignal.Action = "OPEN"
        /\ sgSignal.Direction = "long"
        /\ sgSignal.SourceState = "LOW_VOL_RANGING"
        /\ nsig' = nsig + 1
        /\ ~sgPanic'
        /\ sgCall'.kline.Interval = "5m"
        /\ sgCall'.ta.ready
        /\ sgCall'.position.Direction = "long"
        /\ CurrentState' = "LOW_VOL_RANGING")
       => sgSignal'.Action = "CLOSE" /\ sgSignal'.PositionSize = 0]_vars

\* C40 witness: the second call, in LowVolRange, closes the long position
\* opened in LowVolRange although the RSI (45) is outside the
\* mean-reversion band and the histogram does not cross zero.
C40_Witness ==
    /\ nsig = 2
    /\ CloseEvaluated
    /\ CurrentState = "LOW_VOL_RANGING"
    /\ sgCall.position.Direction = "long"
    /\ sgCall.position.SourceState = "LOW_VOL_RANGING"
    /\ sgCall.ta.RSI = 45
    /\ PrevHist = -1 /\ LastHist = -1
    /\ sgSignal.Action = "CLOSE"

(***************************************************************************)
(* Claims about the two ways a position is closed.                         *)
(***************************************************************************)
\* This step is an iteration of the monitor that closes the open position.
MonitorCloses ==
    /\ nops' = nops + 1
    /\ lastCall'.op = "StartMonitor"
    /\ position.Side # "flat"
    /\ position'.Side = "flat"

\* The close fee on position pos at price: Size * price * FeeRate.
CloseFeeAt(pos, price) ==
    (pos.Size * price * cfg.FeeRate * (MoneyScale \div PriceScale)) \div 1000

\* The TradeRecord ExecuteSignal(Close) appends for position pos at price
\* and time ts.
SignalCloseRecord(pos, price, ts) ==
    [EntryTime |-> pos.EntryTime, ExitTime |-> ts, Symbol |-> pos.Symbol,
     PosSide |-> pos.Side, EntryPrice |-> pos.AvgPrice, ExitPrice |-> price,
     Size |-> pos.Size, RealizedPnL |-> calculateClosedPnL(pos, price),
     Fee |-> pos.EntryFee + CloseFeeAt(pos, price), TriggerReason |-> "Signal"]

\* The balance after a close of position pos at price.
BalanceAfterClose(pos, price) ==
    balance + marginUsed + calculateClosedPnL(pos, price) - CloseFeeAt(pos, price)

\* C35: a close by the monitor has the effect of ExecuteSignal(Close) at the
\* same price on the same state: the same balance, margin used, equity and
\* flat position, and an appended TradeRecord equal in symbol, side, entry
\* price, exit price, size, realized PnL and fee, the trigger reason alone
\* being different.
C35_MonitorCloseEqualsSignalClose ==
    [][MonitorCloses =>
         /\ balance' = BalanceAfterClose(position, lastPrice')
         /\ marginUsed' = 0
         /\ equity' = balance'
         /\ position' = FlatPosition("")
         /\ Len(tradeHistory') = Len(tradeHistory) + 1
         /\ [tradeHistory'[Len(tradeHistory')] EXCEPT !.TriggerReason = "Signal"]
               = SignalCloseRecord(position, lastPrice', lastPriceTickerTimestamp')]_vars

\* The unrealized PnL of the open position at the last-known price.
UPLAtLastPrice ==
    IF position.Side = "long" THEN Notional(position.Size, lastPrice - position.AvgPrice)
    ELSE Notional(position.Size, position.AvgPrice - lastPrice)

\* C36: between calls, equity = balance when the position is Flat and
\* equity = balance + unrealized PnL at the last-known price when a position
\* is open, after every ExecuteSignal call and every monitor tick, the tick
\* on which the monitor closes the position included.
C36_EquityIsBalancePlusUPL ==
    IF position.Side = "flat" THEN equity = balance
    ELSE equity = balance + UPLAtLastPrice

\* C38: between calls the peak equity is at least the current equity (so the
\* drawdown of the adaptation is never negative), after ExecuteSignal calls
\* as well as after monitor ticks.
C38_PeakEquityAtLeastEquity == maxEquity >= equity

\* C37: in every interleaving of ExecuteSignal calls and monitor ticks, a
\* position that closes produces exactly one TradeRecord and one balance
\* credit; a Close signal or a monitor tick that finds the position already
\* flat appends no record, credits nothing and leaves the position flat; the
\* history grows only by a close.
C37_EachCloseRecordedOnce ==
    [][/\ (position.Side # "flat" /\ position'.Side = "flat")
            => /\ Len(tradeHistory') = Len(tradeHistory) + 1
               /\ balance' = BalanceAfterClose(position, lastPrice')
               /\ marginUsed' = 0
       /\ (/\ position.Side = "flat"
           /\ (lastCall'.op = "StartMonitor" \/ lastCall'.arg.Action = "CLOSE"))
            => /\ tradeHistory' = tradeHistory
               /\ balance' = balance
               /\ marginUsed' = marginUsed
               /\ position' = position
       /\ tradeHistory' # tradeHistory
            => position.Side # "flat" /\ position'.Side = "flat"]_vars

\* C37 witness: a Close signal executed after the monitor closed the
\* position on its stop-loss: the position was flat, and the history still
\* holds the monitor's record alone.
C37_Witness ==
    /\ lastCall.op = "ExecuteSignal"
    /\ lastCall.arg.Action = "CLOSE"
    /\ lastCall.err = "nil"
    /\ lastCall.wasFlat
    /\ position.Side = "flat"
    /\ lastCall.hist0 = 1
    /\ Len(tradeHistory) = 1
    /\ tradeHistory[1].TriggerReason = "SL"
    /\ marginUsed = 0

(***************************************************************************)
(* Claims about ticks that do not close the in-progress candle.            *)
(***************************************************************************)
\* C39: a tick whose bucket start (the tick's timestamp truncated as
\* ProcessTicker truncates it) is not after the in-progress candle's
\* start_time, that is an out-of-order tick of an earlier bucket or a tick of
\* the candle's own bucket, is applied to the in-progress candle: close is
\* the tick's price, high and low take it in, volume grows by the tick's
\* volume, open, start_time and end_time stay the same and no candle is
\* emitted or dropped.
C39_LateTickAppliedToCurrentCandle ==
    [][\A t \in AggTicks :
          (/\ t.Symbol = focus[1]
           /\ Current[focus].StartTime # ZeroTime
           /\ Truncate(t.Timestamp, Minute) <= Current[focus].StartTime
           /\ nfed' = nfed + 1
           /\ lastTs' = t.Timestamp
           /\ gcur'.last = t.Price
           /\ AggRun(t))
          => /\ Current'[focus].Close = t.Price
             /\ Current'[focus].High = Max(Current[focus].High, t.Price)
             /\ Current'[focus].Low = Min(Current[focus].Low, t.Price)
             /\ Current'[focus].Volume = Current[focus].Volume + t.Volume
             /\ Current'[focus].Open = Current[focus].Open
             /\ Current'[focus].StartTime = Current[focus].StartTime
             /\ Current'[focus].EndTime = Current[focus].EndTime
             /\ klineChan' = klineChan
             /\ emitted' = emitted
             /\ dropped' = dropped
             /\ lastClosed' = lastClosed]_vars

\* C39 witness: the last tick is older than the in-progress candle's
\* start_time and is among the ticks applied to that candle, whose close is
\* its price; a candle was closed before.
C39_Witness ==
    /\ Current[focus].StartTime # ZeroTime
    /\ lastTs < Current[focus].StartTime
    /\ lastClosed.closed
    /\ lastClosed.by.Timestamp # lastTs
    /\ ~gcur.inside
    /\ gcur.n >= 2
    /\ Current[focus].Close = gcur.last
    /\ Current[focus].High > Current[focus].Low

====
